---- MODULE Spec2Model ----
(***************************************************************************)
(* Irish Historical Sites GIS: a state-machine model of the map client     *)
(* (static/js/map.js), the journey (bucket list) protocol between the      *)
(* client and the REST resource, the paginated list endpoints and the      *)
(* triggers and query functions of database_schema.sql.                    *)
(*                                                                         *)
(* Each subsystem has its own specification over the module's variables;   *)
(* a subsystem's actions leave the variables of the others unchanged.      *)
(*                                                                         *)
(* Not modelled: toasts of the toolbar handlers, button CSS classes, the   *)
(* cursor style and the elevation polyline, none of which is read back by  *)
(* the code.                                                               *)
(***************************************************************************)
EXTENDS Integers, FiniteSets, Sequences, TLC

(***************************************************************************)
(* Bounds                                                                  *)
(***************************************************************************)
MaxPoints == 2
MaxMarkers == 1
MaxInFlight == 1
MaxCalls == 1
MaxEntryId == 2
MaxRows == 201
MaxPage == 3
MaxImages == 3
MaxStmtRows == 2
MaxSites == 2
MaxOverlap == 2
MaxGeoRows == 1
MaxFetches == 1
MaxVer == 2
MaxLoads == 1

(***************************************************************************)
(* MAP CLIENT: tool state (map.js "STATE" section)                         *)
(***************************************************************************)
VARIABLES
    coordsDisplayEnabled,  \* map.js:102
    measurementActive,     \* map.js:104
    elevationActive,       \* map.js:105
    addPointActive,        \* map.js:106
    nearbySearchActive,    \* map.js:107
    drawControl,           \* map.js:990  TRUE iff drawControl is non-null (control on the map)
    clickListeners,        \* listeners registered for the map's 'click' event
    dblclickListeners,     \* listeners registered for the map's 'dblclick' event
    elevationPoints,       \* map.js:98   number of points in elevationPoints
    userMarkers,           \* map.js:95   number of layers in userMarkersLayer
    sidebarOpen,           \* #filterSidebar has class 'open'
    elevInFlight,          \* finishElevationProfile calls awaiting the elevation API
    nearbyInFlight,        \* performNearbySearch calls awaiting the nearby endpoint
    lastEvent              \* history: the last UI event, the modes active before it, what a click did

toolVars == <<coordsDisplayEnabled, measurementActive, elevationActive, addPointActive,
              nearbySearchActive, drawControl, clickListeners, dblclickListeners,
              elevationPoints, userMarkers, sidebarOpen, elevInFlight, nearbyInFlight,
              lastEvent>>


VARIABLES
    journey,     \* the viewer's bucket-list entries on the server: [id, site, status]
    calls,       \* in-flight calls of addToJourney / removeFromJourney / popupopen;
                 \* status is the status in the body of a POST on its way to the server
    popupSite,   \* site whose popup is open on the map (NoSite: none)
    btn,         \* displayed state of the open popup's journey buttons
    lastDone     \* history: the record of the call the last step completed, if any

journeyVars == <<journey, calls, popupSite, btn, lastDone>>

(***************************************************************************)
(* LIST ENDPOINTS: the rows a list request matches and the last response.  *)
(***************************************************************************)
VARIABLES
    rows,        \* number of rows the queryset of a list request matches
    pageResp     \* the last list response: endpoint, page_size parameter, page, item count

pageVars == <<rows, pageResp>>

(***************************************************************************)
(* SITE IMAGES: the site_image table, its id sequence and the open         *)
(* transactions.                                                           *)
(***************************************************************************)
VARIABLES
    site_image,         \* the committed rows: [id, site_id, is_primary]
    site_image_id_seq,  \* last value of the id sequence
    txn,                \* per transaction: open or not, and the rows it has written
    lastStmt            \* history: the last statement committed on its own

imgVars == <<site_image, site_image_id_seq, txn, lastStmt>>

(***************************************************************************)
(* RADIUS QUERY: the historical_site table and the last query result.      *)
(***************************************************************************)
VARIABLES
    historical_site,  \* rows by id: [location, approval_status, is_deleted]
    seeded,           \* number of approved, not deleted sites imported at Origin
    nearResult,       \* the result of the radius query the last step ran
    bboxResult        \* the result of the bounding-box query the last step ran

nearVars == <<historical_site, seeded, nearResult, bboxResult>>

(***************************************************************************)
(* SITE LOADING: the filters, the loadSites requests in flight and what    *)
(* the map shows (map.js:115-120, 356-466, 1596-1601, 1649-1679).          *)
(***************************************************************************)
VARIABLES
    currentFilters,  \* era, county, siteType, nationalMonument
    sitesInFlight,   \* the loadSites calls awaiting their response, oldest first
    markers,         \* ids of the site markers on the map
    markersFrom,     \* history: the request whose response the markers come from
    siteCount,       \* the number in the site count badge
    loadingShown,    \* whether the loading overlay is displayed
    loadDone,        \* history: the load the last step completed, if any
    nearbyPending,   \* number of performNearbySearch calls awaiting their response
    boundaryInFlight,\* the boundary layers (counties, provinces) being loaded
    boundaryLayer,   \* per boundary layer, the features it holds
    lastResponse     \* history: the list response the last step handled, if any

loadVars == <<currentFilters, sitesInFlight, markers, markersFrom, siteCount,
              loadingShown, loadDone, nearbyPending, boundaryInFlight, boundaryLayer,
              lastResponse>>

(***************************************************************************)
(* SERVICE WORKER (sw.js): the caches, the fetch events being handled, the *)
(* content version the server answers with, and the last answer given.     *)
(***************************************************************************)
VARIABLES
    swCache,     \* the entries of the caches: [cache, url, resp]
    swPending,   \* the fetch events whose strategy awaits the network, oldest first
    serverVer,   \* version of the content the server answers with now
    swServed,    \* history: the request the last step answered, what the network
                 \* gave (net), what the cache held (cached) and what was returned
    swLifecycle, \* "new", "installed" or "activated"
    cacheNames   \* the names of the caches that exist

swVars == <<swCache, swPending, serverVer, swServed, swLifecycle, cacheNames>>

(***************************************************************************)
(* SCHEMA CONSTRAINTS (database_schema.sql): the rows of province, county  *)
(* and historical_site as far as the bounds trigger and the approval       *)
(* status check see them, and the markers the map makes of site rows.      *)
(***************************************************************************)
VARIABLES
    province,            \* rows [id, geometry], the geometry as its bounding box
    county,              \* rows [id, geometry]
    historical_site_tbl, \* rows [id, location, approval_status] in degrees (tenths)
    siteMarkers,         \* the markers createSiteMarker returned: [id, lat, lng, warned]
    lastSql              \* history: the statement the last step ran and its outcome

schemaVars == <<province, county, historical_site_tbl, siteMarkers, lastSql>>

\* The viewer's bucket list as GET /api/v1/bucket-list/ lists it, and the last
\* journey lookup or remove made against it
VARIABLES bucketList
lookupVars == <<bucketList>>

notToolVars == <<journeyVars, pageVars, imgVars, nearVars, loadVars, swVars, schemaVars, lookupVars>>
notJourneyVars == <<toolVars, pageVars, imgVars, nearVars, loadVars, swVars, schemaVars, lookupVars>>
notPageVars == <<toolVars, journeyVars, imgVars, nearVars, loadVars, swVars, schemaVars, lookupVars>>
notImgVars == <<toolVars, journeyVars, pageVars, nearVars, loadVars, swVars, schemaVars, lookupVars>>
notNearVars == <<toolVars, journeyVars, pageVars, imgVars, loadVars, swVars, schemaVars, lookupVars>>
notLoadVars == <<toolVars, journeyVars, pageVars, imgVars, nearVars, swVars, schemaVars, lookupVars>>
notSwVars == <<toolVars, journeyVars, pageVars, imgVars, nearVars, loadVars, schemaVars, lookupVars>>
notSchemaVars == <<toolVars, journeyVars, pageVars, imgVars, nearVars, loadVars, swVars, lookupVars>>
notLookupVars == <<toolVars, journeyVars, pageVars, imgVars, nearVars, loadVars, swVars, schemaVars>>

Tools == {"measure", "elevation", "addPoint", "nearby"}

\* The tool state as one value, so that handlers compose as functions.
ToolState ==
    [coordsDisplayEnabled |-> coordsDisplayEnabled,
     measurementActive    |-> measurementActive,
     elevationActive      |-> elevationActive,
     addPointActive       |-> addPointActive,
     nearbySearchActive   |-> nearbySearchActive,
     drawControl          |-> drawControl,
     clickListeners       |-> clickListeners,
     dblclickListeners    |-> dblclickListeners,
     elevationPoints      |-> elevationPoints]

SetToolState(S) ==
    /\ coordsDisplayEnabled' = S.coordsDisplayEnabled
    /\ measurementActive' = S.measurementActive
    /\ elevationActive' = S.elevationActive
    /\ addPointActive' = S.addPointActive
    /\ nearbySearchActive' = S.nearbySearchActive
    /\ drawControl' = S.drawControl
    /\ clickListeners' = S.clickListeners
    /\ dblclickListeners' = S.dblclickListeners
    /\ elevationPoints' = S.elevationPoints

\* The tool flags that are true in S.
ActiveTools(S) ==
    (IF S.measurementActive THEN {"measure"} ELSE {}) \cup
    (IF S.elevationActive THEN {"elevation"} ELSE {}) \cup
    (IF S.addPointActive THEN {"addPoint"} ELSE {}) \cup
    (IF S.nearbySearchActive THEN {"nearby"} ELSE {})

ActiveModes(S) ==
    ActiveTools(S) \cup (IF S.coordsDisplayEnabled THEN {"coords"} ELSE {})

\* History record of a UI event: the modes (tools, coordinate finder, filter
\* sidebar) that were on before it and the tool actions a map click performed.
Event(name, S, performed) ==
    [name |-> name,
     active |-> ActiveModes(S) \cup (IF sidebarOpen THEN {"filter"} ELSE {}),
     performed |-> performed]

\* map.js:884 toggleCoordinatesDisplay, as a function of the tool state
toggleCoordinatesDisplayF(S) ==
    [S EXCEPT !.coordsDisplayEnabled = ~S.coordsDisplayEnabled]

\* map.js:1440-1444, the add-point clause of deactivateOtherTools
deactivateAddPoint(S, currentTool) ==
    IF currentTool # "addPoint" /\ S.addPointActive
    THEN [S EXCEPT !.addPointActive = FALSE,
                   !.clickListeners = @ \ {"handleAddPoint"}]
    ELSE S

\* A deactivation that leaves the nearby flag set.
deactivateNearby_KeepFlag(S, currentTool) == S

\* map.js:1451-1454, the nearby clause of deactivateOtherTools: the flag is
\* cleared, the once('click', performNearbySearch) listener is not removed.
deactivateNearby(S, currentTool) ==
    IF currentTool # "nearby" /\ S.nearbySearchActive
    THEN [S EXCEPT !.nearbySearchActive = FALSE]
    ELSE S

\* deactivateOtherTools without its first clause: the coordinate finder stays on.
deactivateOtherTools_KeepCoords(S, currentTool) ==
    LET S2 == IF currentTool # "measure" /\ S.measurementActive
              THEN [S EXCEPT !.measurementActive = FALSE, !.drawControl = FALSE]
              ELSE S
        S3 == deactivateAddPoint(S2, currentTool)
        S4 == IF currentTool # "elevation" /\ S3.elevationActive
              THEN [S3 EXCEPT !.elevationActive = FALSE,
                              !.clickListeners = @ \ {"handleElevationClick"},
                              !.dblclickListeners = @ \ {"finishElevationProfile"}]
              ELSE S3
    IN  deactivateNearby(S4, currentTool)

\* map.js:1428 deactivateOtherTools(currentTool)
deactivateOtherTools(S, currentTool) ==
    LET S1 == IF currentTool # "coords" /\ S.coordsDisplayEnabled
              THEN toggleCoordinatesDisplayF(S) ELSE S
        S2 == IF currentTool # "measure" /\ S1.measurementActive
              THEN [S1 EXCEPT !.measurementActive = FALSE, !.drawControl = FALSE]
              ELSE S1
        S3 == deactivateAddPoint(S2, currentTool)
        S4 == IF currentTool # "elevation" /\ S3.elevationActive
              THEN [S3 EXCEPT !.elevationActive = FALSE,
                              !.clickListeners = @ \ {"handleElevationClick"},
                              !.dblclickListeners = @ \ {"finishElevationProfile"}]
              ELSE S3
    IN  deactivateNearby(S4, currentTool)

UnchangedCounters == UNCHANGED <<userMarkers, elevInFlight, nearbyInFlight>>

\* map.js:884, the coordinates toolbar button
toggleCoordinatesDisplay ==
    /\ SetToolState(toggleCoordinatesDisplayF(ToolState))
    /\ lastEvent' = Event("toggleCoordinatesDisplay", ToolState, {})
    /\ UNCHANGED notToolVars
    /\ UNCHANGED sidebarOpen
    /\ UnchangedCounters

\* map.js:937, the filter toolbar button
toggleFilterPanel ==
    /\ sidebarOpen' = ~sidebarOpen
    /\ lastEvent' = Event("toggleFilterPanel", ToolState, {})
    /\ UNCHANGED notToolVars
    /\ SetToolState(ToolState)
    /\ UnchangedCounters

\* map.js:992, the measurement toolbar button
toggleMeasurementTool ==
    LET S0 == [ToolState EXCEPT !.measurementActive = ~measurementActive]
        S1 == IF S0.measurementActive THEN deactivateOtherTools(S0, "measure") ELSE S0
        S2 == IF S1.measurementActive
              THEN [S1 EXCEPT !.drawControl = TRUE]
              ELSE [S1 EXCEPT !.drawControl = FALSE]
    IN  /\ SetToolState(S2)
        /\ lastEvent' = Event("toggleMeasurementTool", ToolState, {})
        /\ UNCHANGED notToolVars
        /\ UNCHANGED sidebarOpen
        /\ UnchangedCounters

\* map.js:1064, the add-point toolbar button
toggleAddPointMode ==
    LET S0 == [ToolState EXCEPT !.addPointActive = ~addPointActive]
        S1 == IF S0.addPointActive THEN deactivateOtherTools(S0, "addPoint") ELSE S0
        S2 == IF S1.addPointActive
              THEN [S1 EXCEPT !.clickListeners = @ \cup {"handleAddPoint"}]
              ELSE [S1 EXCEPT !.clickListeners = @ \ {"handleAddPoint"}]
    IN  /\ SetToolState(S2)
        /\ lastEvent' = Event("toggleAddPointMode", ToolState, {})
        /\ UNCHANGED notToolVars
        /\ UNCHANGED sidebarOpen
        /\ UnchangedCounters

\* map.js:1150, the elevation toolbar button
toggleElevationTool ==
    LET S0 == [ToolState EXCEPT !.elevationActive = ~elevationActive]
        S1 == IF S0.elevationActive THEN deactivateOtherTools(S0, "elevation") ELSE S0
        S2 == IF S1.elevationActive
              THEN [S1 EXCEPT !.elevationPoints = 0,
                              !.clickListeners = @ \cup {"handleElevationClick"},
                              !.dblclickListeners = @ \cup {"finishElevationProfile"}]
              ELSE [S1 EXCEPT !.elevationPoints = 0,
                              !.clickListeners = @ \ {"handleElevationClick"},
                              !.dblclickListeners = @ \ {"finishElevationProfile"}]
    IN  /\ SetToolState(S2)
        /\ lastEvent' = Event("toggleElevationTool", ToolState, {})
        /\ UNCHANGED notToolVars
        /\ UNCHANGED sidebarOpen
        /\ UnchangedCounters

\* map.js:1338, the nearby toolbar button. map.once registers the listener
\* unless the same function is already registered (Leaflet Evented._on).
handleNearbySearch ==
    LET S0 == [ToolState EXCEPT !.nearbySearchActive = ~nearbySearchActive]
        S1 == IF S0.nearbySearchActive THEN deactivateOtherTools(S0, "nearby") ELSE S0
        S2 == IF S1.nearbySearchActive
              THEN [S1 EXCEPT !.clickListeners = @ \cup {"performNearbySearch"}]
              ELSE S1
    IN  /\ SetToolState(S2)
        /\ lastEvent' = Event("handleNearbySearch", ToolState, {})
        /\ UNCHANGED notToolVars
        /\ UNCHANGED sidebarOpen
        /\ UnchangedCounters

\* map.js:1415, the clear toolbar button
clearAllDrawings ==
    /\ SetToolState([ToolState EXCEPT !.elevationPoints = 0])
    /\ lastEvent' = Event("clearAllDrawings", ToolState, {})
    /\ UNCHANGED notToolVars
    /\ UNCHANGED sidebarOpen
    /\ UnchangedCounters

\* map.js:1470, the keydown listener, for e.key === 'Escape'
EscapeKeydown ==
    /\ SetToolState(deactivateOtherTools(ToolState, "none"))
    /\ sidebarOpen' = FALSE
    /\ lastEvent' = Event("Escape", ToolState, {})
    /\ UNCHANGED notToolVars
    /\ UnchangedCounters

\* A click on the map: every registered 'click' listener runs.
\*   handleAddPoint (map.js:1086) adds a user marker;
\*   handleElevationClick (map.js:1180) adds a point when elevationActive;
\*   performNearbySearch (map.js:1358) is a once-listener: it is removed,
\*     clears nearbySearchActive and sends the nearby request;
\*   the Leaflet.draw toolbar, present while drawControl is on the map, may
\*     take the click as a vertex of a measurement shape (drew).
MapClick ==
    \E drew \in BOOLEAN :
        LET add    == "handleAddPoint" \in clickListeners
            elev   == "handleElevationClick" \in clickListeners /\ elevationActive
            near   == "performNearbySearch" \in clickListeners
            performed == (IF add THEN {"addPoint"} ELSE {}) \cup
                         (IF elev THEN {"elevation"} ELSE {}) \cup
                         (IF near THEN {"nearby"} ELSE {}) \cup
                         (IF drew THEN {"measure"} ELSE {})
            S1 == IF elev THEN [ToolState EXCEPT !.elevationPoints = @ + 1] ELSE ToolState
            S2 == IF near
                  THEN [S1 EXCEPT !.nearbySearchActive = FALSE,
                                  !.clickListeners = @ \ {"performNearbySearch"}]
                  ELSE S1
        IN  /\ drew => drawControl
            /\ add => userMarkers < MaxMarkers
            /\ elev => elevationPoints < MaxPoints
            /\ near => nearbyInFlight < MaxInFlight
            /\ SetToolState(S2)
            /\ userMarkers' = IF add THEN userMarkers + 1 ELSE userMarkers
            /\ nearbyInFlight' = IF near THEN nearbyInFlight + 1 ELSE nearbyInFlight
            /\ lastEvent' = Event("MapClick", ToolState, performed)
            /\ UNCHANGED notToolVars
            /\ UNCHANGED <<sidebarOpen, elevInFlight>>

\* map.js:1137 removeMarker, from the popup of a user marker
removeMarker ==
    /\ userMarkers > 0
    /\ userMarkers' = userMarkers - 1
    /\ lastEvent' = Event("removeMarker", ToolState, {})
    /\ UNCHANGED notToolVars
    /\ SetToolState(ToolState)
    /\ UNCHANGED <<sidebarOpen, elevInFlight, nearbyInFlight>>

\* A double-click on the map: finishElevationProfile (map.js:1207) runs if
\* registered; with the tool active and two points it sends the elevation
\* request, otherwise it only warns.
MapDblClick ==
    /\ "finishElevationProfile" \in dblclickListeners
    /\ IF elevationActive /\ elevationPoints >= 2
       THEN /\ elevInFlight < MaxInFlight
            /\ elevInFlight' = elevInFlight + 1
       ELSE UNCHANGED elevInFlight
    /\ lastEvent' = Event("MapDblClick", ToolState, {})
    /\ UNCHANGED notToolVars
    /\ SetToolState(ToolState)
    /\ UNCHANGED <<sidebarOpen, userMarkers, nearbyInFlight>>

\* map.js:1240-1249, the finally block of finishElevationProfile, run when
\* the elevation request completes (successfully or not).
ElevationComplete ==
    /\ elevInFlight > 0
    /\ elevInFlight' = elevInFlight - 1
    /\ SetToolState([ToolState EXCEPT
                        !.elevationActive = FALSE,
                        !.clickListeners = @ \ {"handleElevationClick"},
                        !.dblclickListeners = @ \ {"finishElevationProfile"}])
    /\ lastEvent' = Event("ElevationComplete", ToolState, {})
    /\ UNCHANGED notToolVars
    /\ UNCHANGED <<sidebarOpen, userMarkers, nearbyInFlight>>

\* map.js:1373-1409, performNearbySearch after its await: no tool state changes.
NearbyComplete ==
    /\ nearbyInFlight > 0
    /\ nearbyInFlight' = nearbyInFlight - 1
    /\ lastEvent' = Event("NearbyComplete", ToolState, {})
    /\ UNCHANGED notToolVars
    /\ SetToolState(ToolState)
    /\ UNCHANGED <<sidebarOpen, userMarkers, elevInFlight>>


(***************************************************************************)
(* JOURNEY (bucket list): one viewer's list on the server, the site popup  *)
(* of one map page, and the asynchronous calls of map.js that are between  *)
(* a request and its response.  Other tabs and pages of the same viewer    *)
(* act on the list through the same REST resource.                         *)
(***************************************************************************)

Sites == {1, 2}
NoSite == 0
Statuses == {"wishlist", "visited"}
CallIds == 1..MaxCalls
\* The calls one map page can have between request and response: the status
\* lookup of the popupopen listener next to the calls started from buttons.
CallSlots == 1..(MaxCalls + 1)

NoItem == [id |-> 0, site |-> NoSite, status |-> "none"]
NoCall == [op |-> "none", site |-> NoSite, status |-> "none", pc |-> "idle",
           resp |-> "none", postResp |-> "none", item |-> NoItem, domLive |-> FALSE,
           deleteSent |-> FALSE, events |-> 0, toast |-> "none"]

\* map.js:683-712, the journey buttons as the popup HTML creates them
InitialButtons == [add |-> TRUE, remove |-> FALSE, loading |-> FALSE]

EntriesOf(site) == {e \in journey : e.site = site}

\* The entry of the list response that checkJourneyStatus finds for the site
\* (map.js:1694-1697): items.find(i => i.site && i.site.id == siteId) || null
FindItem(items, site) ==
    IF \E e \in items : e.site = site
    THEN CHOOSE e \in items : e.site = site
    ELSE NoItem

\* map.js:1707 updatePopupButtons(siteId, journeyItem): acts on the buttons
\* of the popup that is open for siteId, if any.
updatePopupButtons(B, open, site, item) ==
    IF open # site THEN B
    ELSE IF item = NoItem
         THEN [add |-> TRUE, remove |-> FALSE, loading |-> FALSE]
         ELSE [add |-> FALSE, remove |-> TRUE, loading |-> FALSE]

FreeSlot(c) == /\ calls[c].op = "none"
               /\ \A d \in CallSlots : d < c => calls[d].op # "none"

\* Opening or closing a popup replaces the popup DOM: element references
\* captured by calls in flight no longer refer to displayed buttons.
Detached == [c \in CallSlots |-> [calls[c] EXCEPT !.domLive = FALSE]]

\* What is kept of a completed call: its operation, how its POST was answered, whether its lookup found
\* an entry, whether it sent the DELETE, the journeyUpdated notifications it
\* emitted and the toast it ended with.
Done(call, toast, events) ==
    [op |-> call.op, postResp |-> call.postResp,
     found |-> call.item # NoItem, deleteSent |-> call.deleteSent,
     events |-> events, toast |-> toast]

\* No call completed in the step.
NoDone == Done(NoCall, "none", 0)

Finish(c) ==
    /\ lastDone' = Done(calls[c], calls[c].toast, calls[c].events)

\* map.js:1908-1921, the popupopen listener: the popup of a site opens with
\* its initial buttons and checkJourneyStatus(siteId) is requested.
PopupOpen(c, site) ==
    /\ FreeSlot(c)
    /\ popupSite' = site
    /\ btn' = InitialButtons
    /\ calls' = [Detached EXCEPT ![c] =
                    [NoCall EXCEPT !.op = "popup", !.site = site, !.pc = "list_req"]]
    /\ UNCHANGED <<journey>>
    /\ lastDone' = NoDone
    /\ UNCHANGED notJourneyVars

\* The open popup is closed (Leaflet removes its DOM).
PopupClose ==
    /\ popupSite # NoSite
    /\ popupSite' = NoSite
    /\ btn' = InitialButtons
    /\ calls' = Detached
    /\ UNCHANGED <<journey>>
    /\ lastDone' = NoDone
    /\ UNCHANGED notJourneyVars

\* map.js:1742-1763 window.addToJourney up to its POST, from the onclick of a
\* displayed add / visited button.
AddStart(c, status) ==
    /\ FreeSlot(c)
    /\ popupSite # NoSite
    /\ btn.add
    /\ btn' = [btn EXCEPT !.loading = TRUE, !.add = FALSE]
    /\ calls' = [calls EXCEPT ![c] =
                    [NoCall EXCEPT !.op = "add", !.site = popupSite, !.status = status,
                                   !.pc = "post_req", !.domLive = TRUE]]
    /\ UNCHANGED <<journey, popupSite>>
    /\ lastDone' = NoDone
    /\ UNCHANGED notJourneyVars

\* addToJourney treating every non-ok POST response as a failure.
AddRecvPost_DuplicateThrows(c) ==
    /\ calls[c].op = "add"
    /\ calls[c].pc = "post_resp"
    /\ IF calls[c].resp = "created"
       THEN /\ calls' = [calls EXCEPT ![c].toast = "success:added",
                                      ![c].postResp = "created",
                                      ![c].events = @ + 1,
                                      ![c].pc = "list_req", ![c].resp = "none"]
            /\ UNCHANGED <<btn>>
            /\ lastDone' = NoDone
       ELSE /\ lastDone' = Done([calls[c] EXCEPT !.postResp = calls[c].resp],
                                "error:failed to add", calls[c].events)
            /\ calls' = [calls EXCEPT ![c] = NoCall]
            /\ btn' = IF calls[c].domLive
                      THEN [btn EXCEPT !.loading = FALSE, !.add = TRUE]
                      ELSE btn
    /\ UNCHANGED <<journey, popupSite>>
    /\ UNCHANGED notJourneyVars

\* map.js:1765-1781 and 1787-1795: addToJourney on the POST response.
AddRecvPost(c) ==
    /\ calls[c].op = "add"
    /\ calls[c].pc = "post_resp"
    /\ CASE calls[c].resp = "created" ->
              /\ calls' = [calls EXCEPT ![c].toast = "success:added",
                                        ![c].postResp = "created",
                                        ![c].events = @ + 1,
                                        ![c].pc = "list_req", ![c].resp = "none"]
              /\ UNCHANGED <<btn>>
              /\ lastDone' = NoDone
         [] calls[c].resp = "duplicate" ->
              /\ calls' = [calls EXCEPT ![c].toast = "info:already in your journey",
                                        ![c].postResp = "duplicate",
                                        ![c].pc = "list_req", ![c].resp = "none"]
              /\ UNCHANGED <<btn>>
              /\ lastDone' = NoDone
         [] OTHER ->
              /\ lastDone' = Done([calls[c] EXCEPT !.postResp = "failed"],
                               "error:failed to add", calls[c].events)
              /\ calls' = [calls EXCEPT ![c] = NoCall]
              /\ btn' = IF calls[c].domLive
                        THEN [btn EXCEPT !.loading = FALSE, !.add = TRUE]
                        ELSE btn
    /\ UNCHANGED <<journey, popupSite>>
    /\ UNCHANGED notJourneyVars

\* map.js:1783-1785: addToJourney on the response of its follow-up lookup.
AddRecvList(c) ==
    /\ calls[c].op = "add"
    /\ calls[c].pc = "list_resp"
    /\ btn' = updatePopupButtons(btn, popupSite, calls[c].site, calls[c].item)
    /\ Finish(c)
    /\ calls' = [calls EXCEPT ![c] = NoCall]
    /\ UNCHANGED <<journey, popupSite>>
    /\ UNCHANGED notJourneyVars

\* map.js:1918-1919: the popupopen listener on the lookup response.
PopupRecvList(c) ==
    /\ calls[c].op = "popup"
    /\ calls[c].pc = "list_resp"
    /\ btn' = updatePopupButtons(btn, popupSite, calls[c].site, calls[c].item)
    /\ Finish(c)
    /\ calls' = [calls EXCEPT ![c] = NoCall]
    /\ UNCHANGED <<journey, popupSite>>
    /\ UNCHANGED notJourneyVars

\* map.js:1801-1811 window.removeFromJourney up to its lookup, from the
\* onclick of a displayed remove button.
RemoveStart(c) ==
    /\ FreeSlot(c)
    /\ popupSite # NoSite
    /\ btn.remove
    /\ btn' = [btn EXCEPT !.loading = TRUE, !.remove = FALSE]
    /\ calls' = [calls EXCEPT ![c] =
                    [NoCall EXCEPT !.op = "remove", !.site = popupSite,
                                   !.pc = "list_req", !.domLive = TRUE]]
    /\ UNCHANGED <<journey, popupSite>>
    /\ lastDone' = NoDone
    /\ UNCHANGED notJourneyVars

\* removeFromJourney without the check of the lookup result: reading the id
\* of a null item throws and the catch block reports a failure.
RemoveRecvList_NoNullCheck(c) ==
    /\ calls[c].op = "remove"
    /\ calls[c].pc = "list_resp"
    /\ IF calls[c].item = NoItem
       THEN /\ lastDone' = Done(calls[c], "error:failed to remove", calls[c].events)
            /\ calls' = [calls EXCEPT ![c] = NoCall]
            /\ btn' = IF calls[c].domLive
                      THEN [btn EXCEPT !.loading = FALSE, !.remove = TRUE]
                      ELSE btn
       ELSE /\ calls' = [calls EXCEPT ![c].pc = "del_req", ![c].deleteSent = TRUE]
            /\ UNCHANGED <<btn>>
            /\ lastDone' = NoDone
    /\ UNCHANGED <<journey, popupSite>>
    /\ UNCHANGED notJourneyVars

\* map.js:1811-1825: removeFromJourney on the lookup response: 'not found'
\* and return when no entry was resolved, else the DELETE of the entry's id.
RemoveRecvList(c) ==
    /\ calls[c].op = "remove"
    /\ calls[c].pc = "list_resp"
    /\ IF calls[c].item = NoItem
       THEN /\ lastDone' = Done(calls[c], "error:not found in journey", calls[c].events)
            /\ calls' = [calls EXCEPT ![c] = NoCall]
            /\ btn' = IF calls[c].domLive
                      THEN [btn EXCEPT !.loading = FALSE, !.remove = TRUE]
                      ELSE btn
       ELSE /\ calls' = [calls EXCEPT ![c].pc = "del_req", ![c].deleteSent = TRUE]
            /\ UNCHANGED <<btn>>
            /\ lastDone' = NoDone
    /\ UNCHANGED <<journey, popupSite>>
    /\ UNCHANGED notJourneyVars

\* removeFromJourney notifying before it looks at the DELETE response.
RemoveRecvDelete_NotifyFirst(c) ==
    /\ calls[c].op = "remove"
    /\ calls[c].pc = "del_resp"
    /\ IF calls[c].resp = "deleted"
       THEN /\ lastDone' = Done(calls[c], "success:removed", calls[c].events + 1)
            /\ btn' = updatePopupButtons(btn, popupSite, calls[c].site, NoItem)
       ELSE /\ lastDone' = Done(calls[c], "error:failed to remove", calls[c].events + 1)
            /\ btn' = IF calls[c].domLive
                      THEN [btn EXCEPT !.loading = FALSE, !.remove = TRUE]
                      ELSE btn
    /\ calls' = [calls EXCEPT ![c] = NoCall]
    /\ UNCHANGED <<journey, popupSite>>
    /\ UNCHANGED notJourneyVars

\* map.js:1827-1849: removeFromJourney on the DELETE response.
RemoveRecvDelete(c) ==
    /\ calls[c].op = "remove"
    /\ calls[c].pc = "del_resp"
    /\ IF calls[c].resp = "deleted"
       THEN /\ lastDone' = Done(calls[c], "success:removed", calls[c].events + 1)
            /\ btn' = updatePopupButtons(btn, popupSite, calls[c].site, NoItem)
       ELSE /\ lastDone' = Done(calls[c], "error:failed to remove", calls[c].events)
            /\ btn' = IF calls[c].domLive
                      THEN [btn EXCEPT !.loading = FALSE, !.remove = TRUE]
                      ELSE btn
    /\ calls' = [calls EXCEPT ![c] = NoCall]
    /\ UNCHANGED <<journey, popupSite>>
    /\ UNCHANGED notJourneyVars

\* The ids no entry and no response held by a call carries. Ids are serial
\* and only compared for equality, so the least such id stands for the next one.
FreeIds == (1..MaxEntryId) \ ({e.id : e \in journey} \cup {calls[c].item.id : c \in CallSlots})
FreshId ==
    IF FreeIds = {} THEN MaxEntryId + 1
    ELSE CHOOSE i \in FreeIds : \A j \in FreeIds : i <= j

\* The server creating an entry whatever the list holds.
CreateEntry_NoCheck(site, status) ==
    [journey |-> journey \cup {[id |-> FreshId, site |-> site, status |-> status]},
     resp |-> "created"]

\* POST /api/v1/bucket-list/ on the server: an entry for a site already in
\* the viewer's list is refused with the 'already in bucket list' error,
\* otherwise the entry is created.
CreateEntry(site, status) ==
    IF EntriesOf(site) # {}
    THEN [journey |-> journey, resp |-> "duplicate"]
    ELSE [journey |-> journey \cup {[id |-> FreshId, site |-> site, status |-> status]},
          resp |-> "created"]

\* DELETE /api/v1/bucket-list/{id}/ on the server.
DeleteEntry(id) ==
    IF \E e \in journey : e.id = id
    THEN [journey |-> {e \in journey : e.id # id}, resp |-> "deleted"]
    ELSE [journey |-> journey, resp |-> "not found"]

ServerPost(c) ==
    /\ calls[c].pc = "post_req"
    /\ LET r == CreateEntry(calls[c].site, calls[c].status)
       IN  /\ r.resp = "created" => FreeIds # {}
           /\ journey' = r.journey
           /\ calls' = [calls EXCEPT ![c].pc = "post_resp", ![c].resp = r.resp,
                                     ![c].status = "none"]
    /\ UNCHANGED <<popupSite, btn>>
    /\ lastDone' = NoDone
    /\ UNCHANGED notJourneyVars

\* GET /api/v1/bucket-list/ on the server, and checkJourneyStatus's search
\* of the response for the site (map.js:1693-1697).
ServerList(c) ==
    /\ calls[c].pc = "list_req"
    /\ calls' = [calls EXCEPT ![c].pc = "list_resp", ![c].resp = "ok",
                              ![c].item = FindItem(journey, calls[c].site)]
    /\ UNCHANGED <<journey, popupSite, btn>>
    /\ lastDone' = NoDone
    /\ UNCHANGED notJourneyVars

ServerDelete(c) ==
    /\ calls[c].pc = "del_req"
    /\ LET r == DeleteEntry(calls[c].item.id)
       IN  /\ journey' = r.journey
           /\ calls' = [calls EXCEPT ![c].pc = "del_resp", ![c].resp = r.resp]
    /\ UNCHANGED <<popupSite, btn>>
    /\ lastDone' = NoDone
    /\ UNCHANGED notJourneyVars

\* A request fails without reaching the server (network error or an error
\* status): fetch rejects or response.ok is false.  checkJourneyStatus
\* returns null in both cases (map.js:1691, 1698-1701).
RequestFails(c) ==
    /\ calls[c].pc \in {"post_req", "list_req", "del_req"}
    /\ calls' = [calls EXCEPT
                    ![c].pc = CASE calls[c].pc = "post_req" -> "post_resp"
                                [] calls[c].pc = "list_req" -> "list_resp"
                                [] OTHER -> "del_resp",
                    ![c].resp = "failed",
                    ![c].status = "none",
                    ![c].item = IF calls[c].pc = "list_req" THEN NoItem ELSE @]
    /\ UNCHANGED <<journey, popupSite, btn>>
    /\ lastDone' = NoDone
    /\ UNCHANGED notJourneyVars

\* Another tab or page of the same viewer adds or removes an entry through
\* the same resource.
OtherTabAdds(site, status) ==
    /\ LET r == CreateEntry(site, status)
       IN  /\ r.resp = "created"
           /\ FreeIds # {}
           /\ journey' = r.journey
    /\ UNCHANGED <<calls, popupSite, btn>>
    /\ lastDone' = NoDone
    /\ UNCHANGED notJourneyVars

OtherTabRemoves(e) ==
    /\ e \in journey
    /\ journey' = DeleteEntry(e.id).journey
    /\ UNCHANGED <<calls, popupSite, btn>>
    /\ lastDone' = NoDone
    /\ UNCHANGED notJourneyVars

InitJourney ==
    /\ journey = {}
    /\ calls = [c \in CallSlots |-> NoCall]
    /\ popupSite = NoSite
    /\ btn = InitialButtons
    /\ lastDone = NoDone

NextJourney ==
    \/ \E c \in CallIds, s \in Sites : PopupOpen(c, s)
    \/ PopupClose
    \/ \E c \in CallIds, st \in Statuses : AddStart(c, st)
    \/ \E c \in CallIds : AddRecvPost(c)
    \/ \E c \in CallIds : AddRecvList(c)
    \/ \E c \in CallIds : PopupRecvList(c)
    \/ \E c \in CallIds : RemoveStart(c)
    \/ \E c \in CallIds : RemoveRecvList(c)
    \/ \E c \in CallIds : RemoveRecvDelete(c)
    \/ \E c \in CallIds : ServerPost(c)
    \/ \E c \in CallIds : ServerList(c)
    \/ \E c \in CallIds : ServerDelete(c)
    \/ \E c \in CallIds : RequestFails(c)
    \/ \E s \in Sites, st \in Statuses : OtherTabAdds(s, st)
    \/ \E e \in journey : OtherTabRemoves(e)

\* One map page alone on a reachable server: the popup of a site, its
\* buttons, and the lookups, adds and removes they start, answered in any
\* order.
NextPopup ==
    \/ \E c \in CallSlots, s \in Sites : PopupOpen(c, s)
    \/ \E c \in CallSlots, st \in Statuses : AddStart(c, st)
    \/ \E c \in CallSlots : AddRecvPost(c)
    \/ \E c \in CallSlots : AddRecvList(c)
    \/ \E c \in CallSlots : PopupRecvList(c)
    \/ \E c \in CallSlots : RemoveStart(c)
    \/ \E c \in CallSlots : RemoveRecvList(c)
    \/ \E c \in CallSlots : RemoveRecvDelete(c)
    \/ \E c \in CallSlots : ServerPost(c)
    \/ \E c \in CallSlots : ServerList(c)
    \/ \E c \in CallSlots : ServerDelete(c)


(***************************************************************************)
(* LIST ENDPOINTS: pagination of the REST list responses                   *)
(* (CRITICAL_MEMORY_FIXES.md; apps/api/views.py is not part of the         *)
(* sources).                                                               *)
(***************************************************************************)
DefaultPageSize == 100
MaxPageSize == 200
NearbyCap == 100
FallbackLimit == 200
ClientPageSize == 2000

NoParam == 0
Endpoints == {"sites", "in_bbox", "by_era", "by_county", "nearby",
              "counties", "provinces", "bucket-list"}
\* The endpoints whose action falls back to a slice when the view has no paginator.
FallbackEndpoints == {"in_bbox", "by_era", "by_county"}
RowCounts == {0, 1, 5, DefaultPageSize + 1, MaxPageSize, MaxRows}
PageSizeParams == {NoParam, 1, 4, DefaultPageSize, MaxPageSize, MaxPageSize + 1, ClientPageSize}

Min(a, b) == IF a <= b THEN a ELSE b
Max(a, b) == IF a >= b THEN a ELSE b

\* The page size a request gets whatever it asks for.
PageSizeFor_Unlimited(requested) ==
    IF requested = NoParam THEN DefaultPageSize ELSE requested

\* The page size of a request: the default without a page_size parameter,
\* else the parameter cut to the maximum page size.
PageSizeFor(requested) ==
    IF requested = NoParam THEN DefaultPageSize ELSE Min(requested, MaxPageSize)

\* Number of items on page `page` of n rows in pages of `size`.
PageItems(n, size, page) == Max(0, Min(size, n - (page - 1) * size))

\* Number of items in the response of a list request.
ResponseItems(endpoint, n, requested, page, paginated) ==
    LET matched == IF endpoint = "nearby" THEN Min(n, NearbyCap) ELSE n
    IN  IF paginated
        THEN PageItems(matched, PageSizeFor(requested), page)
        ELSE Min(matched, FallbackLimit)

\* The table behind a list endpoint comes to hold n matching rows
\* (imports, submissions, deletions).
LoadRows(n) ==
    /\ n # rows
    /\ rows' = n
    /\ UNCHANGED pageResp
    /\ UNCHANGED notPageVars

\* A list request with an optional page_size parameter and a page number.
ListRequest(endpoint, requested, page, paginated) ==
    /\ ~paginated => endpoint \in FallbackEndpoints
    /\ pageResp' = [endpoint |-> endpoint, requested |-> requested, page |-> page,
                    count |-> ResponseItems(endpoint, rows, requested, page, paginated)]
    /\ UNCHANGED rows
    /\ UNCHANGED notPageVars

\* map.js:359-377, loadSites: the sites list with page_size=2000, first page.
LoadSitesRequest == ListRequest("sites", ClientPageSize, 1, TRUE)

InitPage ==
    /\ rows = 0
    /\ pageResp = [endpoint |-> "none", requested |-> NoParam, page |-> 1, count |-> 0]

NextPage ==
    \/ \E n \in RowCounts : LoadRows(n)
    \/ \E e \in Endpoints, r \in PageSizeParams, pg \in 1..MaxPage, pd \in BOOLEAN :
          ListRequest(e, r, pg, pd)
    \/ LoadSitesRequest

(***************************************************************************)
(* SITE IMAGES: the site_image table and its enforce_primary_image trigger *)
(* (database_schema.sql:175-206, 322-336).                                 *)
(***************************************************************************)
ImgSites == {1, 2}
Txns == {"T1", "T2"}

NoStmt == [kind |-> "none", ok |-> TRUE, demoted |-> FALSE]

ImgIds(tbl) == {r.id : r \in tbl}
RowOf(tbl, id) == CHOOSE r \in tbl : r.id = id
PrimaryOf(tbl, site) == {r \in tbl : r.site_id = site /\ r.is_primary}

\* The rows the trigger's UPDATE matches:
\* WHERE site_id = new.site_id AND id != COALESCE(new.id, 0)
OtherRowsOfSite(tbl, new) == {r \in tbl : r.site_id = new.site_id /\ r.id # new.id}

\* The trigger function without its UPDATE.
enforce_single_primary_image_NoUpdate(tbl, new) == tbl

\* enforce_single_primary_image, BEFORE INSERT OR UPDATE FOR EACH ROW: the
\* table as the trigger leaves it before the row new is stored.
enforce_single_primary_image(tbl, new) ==
    IF new.is_primary
    THEN {IF r \in OtherRowsOfSite(tbl, new) THEN [r EXCEPT !.is_primary = FALSE] ELSE r :
            r \in tbl}
    ELSE tbl

\* The ids of the rows the trigger's UPDATE writes for the row new.
TriggerWrites(tbl, new) ==
    IF new.is_primary THEN ImgIds(OtherRowsOfSite(tbl, new)) ELSE {}

\* Whether the trigger turns off the flag of a row that had it.
Demotes(tbl, new) ==
    new.is_primary /\ \E r \in OtherRowsOfSite(tbl, new) : r.is_primary

\* The sequences of at most MaxStmtRows distinct elements of S.
Orders(S) ==
    UNION {{q \in [1..n -> S] : \A i, j \in 1..n : i # j => q[i] # q[j]} :
             n \in 0..MaxStmtRows}

\* The VALUES lists of an INSERT: 1..MaxStmtRows rows of (site_id, is_primary).
ValuesLists ==
    UNION {[1..n -> [site_id : ImgSites, is_primary : BOOLEAN]] : n \in 1..MaxStmtRows}

\* The SET clauses of an UPDATE: the columns assigned and their values.
SetClauses ==
    {c \in [setSite : BOOLEAN, site_id : ImgSites, setPrimary : BOOLEAN, is_primary : BOOLEAN] :
        /\ ~c.setSite => c.site_id = 1
        /\ ~c.setPrimary => ~c.is_primary}

\* INSERT ... VALUES vals on the rows tbl a statement sees, the sequence
\* giving the ids from nextid on; the trigger fires before each row is stored.
RECURSIVE ExecInsert(_, _, _, _, _)
ExecInsert(tbl, nextid, vals, written, demoted) ==
    IF vals = <<>>
    THEN [ok |-> TRUE, tbl |-> tbl, written |-> written, demoted |-> demoted]
    ELSE LET new == [id |-> nextid, site_id |-> Head(vals).site_id,
                     is_primary |-> Head(vals).is_primary]
         IN  ExecInsert(enforce_single_primary_image(tbl, new) \cup {new},
                        nextid + 1, Tail(vals),
                        written \cup TriggerWrites(tbl, new) \cup {nextid},
                        demoted \/ Demotes(tbl, new))

\* UPDATE ... SET set on the rows ids, in the order the scan meets them. A
\* row the trigger has written for an earlier row of the same statement
\* cannot be updated by it: the statement fails ('tuple to be updated was
\* already modified by an operation triggered by the current command').
RECURSIVE ExecUpdate(_, _, _, _, _, _)
ExecUpdate(tbl, ids, set, touched, written, demoted) ==
    IF ids = <<>>
    THEN [ok |-> TRUE, tbl |-> tbl, written |-> written, demoted |-> demoted]
    ELSE LET old == RowOf(tbl, Head(ids))
             new == [id |-> old.id,
                     site_id |-> IF set.setSite THEN set.site_id ELSE old.site_id,
                     is_primary |-> IF set.setPrimary THEN set.is_primary ELSE old.is_primary]
             tbl1 == enforce_single_primary_image(tbl, new)
         IN  IF old.id \in touched
             THEN [ok |-> FALSE, tbl |-> tbl, written |-> written, demoted |-> demoted]
             ELSE ExecUpdate({r \in tbl1 : r.id # old.id} \cup {new}, Tail(ids), set,
                             touched \cup TriggerWrites(tbl, new),
                             written \cup TriggerWrites(tbl, new) \cup {old.id},
                             demoted \/ Demotes(tbl, new))

StmtRecord(kind, r) == [kind |-> kind, ok |-> r.ok, demoted |-> r.ok /\ r.demoted]

\* A single INSERT statement, committed on its own.
InsertStatement(vals) ==
    /\ site_image_id_seq + Len(vals) <= MaxImages
    /\ LET r == ExecInsert(site_image, site_image_id_seq + 1, vals, {}, FALSE)
       IN  /\ site_image' = r.tbl
           /\ lastStmt' = StmtRecord("insert", r)
    /\ site_image_id_seq' = site_image_id_seq + Len(vals)
    /\ UNCHANGED txn
    /\ UNCHANGED notImgVars

\* A single UPDATE statement, committed on its own; a failed one changes nothing.
UpdateStatement(ids, set) ==
    /\ ids # <<>>
    /\ LET r == ExecUpdate(site_image, ids, set, {}, {}, FALSE)
       IN  /\ site_image' = IF r.ok THEN r.tbl ELSE site_image
           /\ lastStmt' = StmtRecord("update", r)
    /\ UNCHANGED <<site_image_id_seq, txn>>
    /\ UNCHANGED notImgVars

NextImg ==
    \/ \E vals \in ValuesLists : InsertStatement(vals)
    \/ \E ids \in Orders(ImgIds(site_image)), set \in SetClauses : UpdateStatement(ids, set)

(***************************************************************************)
(* The same statements inside two concurrent READ COMMITTED transactions.  *)
(* A statement sees the committed rows and its own transaction's writes;   *)
(* a row another open transaction has written is locked, and a statement   *)
(* that has to write it waits (is not enabled) until that transaction      *)
(* ends. The statements here insert one row or set one row's flag.         *)
(***************************************************************************)
NoTxn == [active |-> FALSE, writes |-> {}]

\* The rows a statement of transaction t sees.
View(t) == {r \in site_image : r.id \notin ImgIds(txn[t].writes)} \cup txn[t].writes

LockedByOthers(t) == UNION {ImgIds(txn[u].writes) : u \in Txns \ {t}}

Begin(t) ==
    /\ ~txn[t].active
    /\ txn' = [txn EXCEPT ![t].active = TRUE]
    /\ UNCHANGED <<site_image, site_image_id_seq, lastStmt>>
    /\ UNCHANGED notImgVars

\* INSERT of one row by transaction t.
TxnInsert(t, val) ==
    /\ txn[t].active
    /\ site_image_id_seq + 1 <= MaxImages
    /\ LET r == ExecInsert(View(t), site_image_id_seq + 1, <<val>>, {}, FALSE)
       IN  /\ r.written \cap LockedByOthers(t) = {}
           /\ txn' = [txn EXCEPT ![t].writes =
                         {w \in r.tbl : w.id \in r.written \cup ImgIds(txn[t].writes)}]
    /\ site_image_id_seq' = site_image_id_seq + 1
    /\ UNCHANGED <<site_image, lastStmt>>
    /\ UNCHANGED notImgVars

\* UPDATE site_image SET is_primary = TRUE WHERE id = id, by transaction t.
TxnUpdate(t, id) ==
    /\ txn[t].active
    /\ id \in ImgIds(View(t))
    /\ LET set == [setSite |-> FALSE, site_id |-> 1, setPrimary |-> TRUE, is_primary |-> TRUE]
           r == ExecUpdate(View(t), <<id>>, set, {}, {}, FALSE)
       IN  /\ r.written \cap LockedByOthers(t) = {}
           /\ txn' = [txn EXCEPT ![t].writes =
                         {w \in r.tbl : w.id \in r.written \cup ImgIds(txn[t].writes)}]
    /\ UNCHANGED <<site_image, site_image_id_seq, lastStmt>>
    /\ UNCHANGED notImgVars

Commit(t) ==
    /\ txn[t].active
    /\ site_image' = View(t)
    /\ txn' = [txn EXCEPT ![t] = NoTxn]
    /\ UNCHANGED <<site_image_id_seq, lastStmt>>
    /\ UNCHANGED notImgVars

Rollback(t) ==
    /\ txn[t].active
    /\ txn' = [txn EXCEPT ![t] = NoTxn]
    /\ UNCHANGED <<site_image, site_image_id_seq, lastStmt>>
    /\ UNCHANGED notImgVars

InitImg ==
    /\ site_image = {}
    /\ site_image_id_seq = 0
    /\ txn = [t \in Txns |-> NoTxn]
    /\ lastStmt = NoStmt

NextImgConc ==
    \/ \E t \in Txns : Begin(t)
    \/ \E t \in Txns, val \in [site_id : ImgSites, is_primary : BOOLEAN] : TxnInsert(t, val)
    \/ \E t \in Txns, id \in 1..MaxImages : TxnUpdate(t, id)
    \/ \E t \in Txns : Commit(t)
    \/ \E t \in Txns : Rollback(t)

(***************************************************************************)
(* RADIUS QUERY: historical_site and find_sites_near_point                 *)
(* (database_schema.sql:108-150, 351-380) on a grid of 0.1 degree steps    *)
(* around 53N 8W.                                                          *)
(***************************************************************************)
MetresPerLonStep == 6700
MetresPerLatStep == 11100

Origin == [lon |-> 0, lat |-> 0]
East == [lon |-> 1, lat |-> 0]
North == [lon |-> 0, lat |-> 1]
GridPlaces == {Origin, East, North}
\* The function's default radius and the radius the map client asks for.
RadiiKm == {10, 15}
ApprovalStatuses == {"pending", "approved", "rejected"}
SeedCounts == {0, NearbyCap}

NoResult == [via |-> "none", p |-> Origin, radius_km |-> 10, ids |-> {}, seeded |-> 0]

\* The coordinates, in grid steps, a bounding box is asked with.
BoxCoords == {-1, 0, 1}
Boxes ==
    {b \in [min_lng : BoxCoords, min_lat : BoxCoords, max_lng : BoxCoords, max_lat : BoxCoords] :
        b.min_lng # b.max_lng /\ b.min_lat # b.max_lat}

NoBboxResult == [called |-> FALSE,
                 box |-> [min_lng |-> 0, min_lat |-> 0, max_lng |-> 1, max_lat |-> 1],
                 rows |-> {}, seeded |-> 0]

\* Square of the distance on the ground between two places, in metres.
GeoDistSq(a, b) ==
    ((a.lon - b.lon) * MetresPerLonStep) * ((a.lon - b.lon) * MetresPerLonStep)
    + ((a.lat - b.lat) * MetresPerLatStep) * ((a.lat - b.lat) * MetresPerLatStep)

\* ST_DWithin on the coordinates themselves: the distance in grid steps.
ST_DWithin_Planar(a, b, units) ==
    (a.lon - b.lon) * (a.lon - b.lon) + (a.lat - b.lat) * (a.lat - b.lat) <= units * units

\* ST_DWithin(a::geography, b::geography, metres)
ST_DWithin(a, b, metres) == GeoDistSq(a, b) <= metres * metres

\* The radius query without its test of approval_status.
find_sites_near_point_AnyStatus(p, p_radius_km) ==
    [ids |-> {i \in DOMAIN historical_site :
                /\ historical_site[i].is_deleted = FALSE
                /\ ST_DWithin(historical_site[i].location, p, p_radius_km * 1000)},
     seeded |-> IF ST_DWithin(Origin, p, p_radius_km * 1000) THEN seeded ELSE 0]

\* find_sites_near_point(p_longitude, p_latitude, p_radius_km): the ids of
\* the rows it returns, and how many of the seeded rows (all approved, not
\* deleted, located at Origin) it returns.
find_sites_near_point(p, p_radius_km) ==
    [ids |-> {i \in DOMAIN historical_site :
                /\ historical_site[i].is_deleted = FALSE
                /\ historical_site[i].approval_status = "approved"
                /\ ST_DWithin(historical_site[i].location, p, p_radius_km * 1000)},
     seeded |-> IF ST_DWithin(Origin, p, p_radius_km * 1000) THEN seeded ELSE 0]

\* INSERT INTO historical_site: approval_status as given, is_deleted FALSE.
InsertSite(loc, status) ==
    /\ Len(historical_site) < MaxSites
    /\ historical_site' = Append(historical_site,
           [location |-> loc, approval_status |-> status, is_deleted |-> FALSE])
    /\ nearResult' = NoResult
    /\ bboxResult' = NoBboxResult
    /\ UNCHANGED seeded
    /\ UNCHANGED notNearVars

SetApprovalStatus(i, status) ==
    /\ historical_site[i].approval_status # status
    /\ historical_site' = [historical_site EXCEPT ![i].approval_status = status]
    /\ nearResult' = NoResult
    /\ bboxResult' = NoBboxResult
    /\ UNCHANGED seeded
    /\ UNCHANGED notNearVars

SetDeleted(i, flag) ==
    /\ historical_site[i].is_deleted # flag
    /\ historical_site' = [historical_site EXCEPT ![i].is_deleted = flag]
    /\ nearResult' = NoResult
    /\ bboxResult' = NoBboxResult
    /\ UNCHANGED seeded
    /\ UNCHANGED notNearVars

\* A bulk import leaves n approved, not deleted sites at Origin.
SeedSites(n) ==
    /\ n # seeded
    /\ seeded' = n
    /\ nearResult' = NoResult
    /\ bboxResult' = NoBboxResult
    /\ UNCHANGED historical_site
    /\ UNCHANGED notNearVars

\* SELECT * FROM find_sites_near_point(...)
CallFindSitesNearPoint(p, r) ==
    /\ LET res == find_sites_near_point(p, r)
       IN  nearResult' = [via |-> "function", p |-> p, radius_km |-> r,
                          ids |-> res.ids, seeded |-> res.seeded]
    /\ bboxResult' = NoBboxResult
    /\ UNCHANGED <<historical_site, seeded>>
    /\ UNCHANGED notNearVars

\* GET /api/v1/sites/nearby/?lat&lon&distance: the radius query capped at
\* NearbyCap results, whichever of the matching sites those are.
NearbyEndpoint(p, r) ==
    /\ LET res == find_sites_near_point(p, r)
           total == Cardinality(res.ids) + res.seeded
       IN  \E keep \in SUBSET res.ids :
              /\ Min(total, NearbyCap) - Cardinality(keep) \in 0..res.seeded
              /\ nearResult' = [via |-> "endpoint", p |-> p, radius_km |-> r,
                                ids |-> keep,
                                seeded |-> Min(total, NearbyCap) - Cardinality(keep)]
    /\ bboxResult' = NoBboxResult
    /\ UNCHANGED <<historical_site, seeded>>
    /\ UNCHANGED notNearVars

\* ST_MakeEnvelope(xmin, ymin, xmax, ymax, 4326): the ring through the four
\* corners, taken as they are given.
ST_MakeEnvelope(xmin, ymin, xmax, ymax) ==
    <<[x |-> xmin, y |-> ymin], [x |-> xmin, y |-> ymax],
      [x |-> xmax, y |-> ymax], [x |-> xmax, y |-> ymin]>>

\* ST_Intersects of a point and a rectangle that ignores the latitude.
ST_Intersects_LngOnly(pt, ring) ==
    /\ \E i \in DOMAIN ring : ring[i].x <= pt.lon
    /\ \E i \in DOMAIN ring : ring[i].x >= pt.lon

\* ST_Intersects(point, rectangle): the point is inside the rectangle or on
\* its boundary, whichever way round the ring runs.
ST_Intersects(pt, ring) ==
    /\ \E i \in DOMAIN ring : ring[i].x <= pt.lon
    /\ \E i \in DOMAIN ring : ring[i].x >= pt.lon
    /\ \E i \in DOMAIN ring : ring[i].y <= pt.lat
    /\ \E i \in DOMAIN ring : ring[i].y >= pt.lat

\* find_sites_in_bbox(p_min_lng, p_min_lat, p_max_lng, p_max_lat): the rows
\* (site_id, longitude, latitude) it returns, and how many seeded rows.
find_sites_in_bbox(p_min_lng, p_min_lat, p_max_lng, p_max_lat) ==
    LET env == ST_MakeEnvelope(p_min_lng, p_min_lat, p_max_lng, p_max_lat)
    IN  [rows |-> {[site_id |-> i, longitude |-> historical_site[i].location.lon,
                    latitude |-> historical_site[i].location.lat] :
                     i \in {j \in DOMAIN historical_site :
                              /\ historical_site[j].is_deleted = FALSE
                              /\ historical_site[j].approval_status = "approved"
                              /\ ST_Intersects(historical_site[j].location, env)}},
         seeded |-> IF ST_Intersects(Origin, env) THEN seeded ELSE 0]

\* SELECT * FROM find_sites_in_bbox(...)
CallFindSitesInBbox(b) ==
    /\ LET res == find_sites_in_bbox(b.min_lng, b.min_lat, b.max_lng, b.max_lat)
       IN  bboxResult' = [called |-> TRUE, box |-> b, rows |-> res.rows,
                          seeded |-> res.seeded]
    /\ nearResult' = NoResult
    /\ UNCHANGED <<historical_site, seeded>>
    /\ UNCHANGED notNearVars

InitNear ==
    /\ historical_site = <<>>
    /\ seeded = 0
    /\ nearResult = NoResult
    /\ bboxResult = NoBboxResult

NextNear ==
    \/ \E loc \in GridPlaces, st \in ApprovalStatuses : InsertSite(loc, st)
    \/ \E i \in DOMAIN historical_site, st \in ApprovalStatuses : SetApprovalStatus(i, st)
    \/ \E i \in DOMAIN historical_site, flag \in BOOLEAN : SetDeleted(i, flag)
    \/ \E n \in SeedCounts : SeedSites(n)
    \/ \E p \in GridPlaces, r \in RadiiKm : CallFindSitesNearPoint(p, r)
    \/ \E p \in GridPlaces, r \in RadiiKm : NearbyEndpoint(p, r)

(***************************************************************************)
(* SITE LOADING (map.js): loadSites, displaySites, applyFilters,           *)
(* clearFilters, setFilter. JavaScript values are written as strings:      *)
(* "null", "" (empty selection), "true", "false", and the option values.   *)
(***************************************************************************)
Null == "null"
FilterNames == {"era", "county", "siteType", "nationalMonument"}
NoFilters == [era |-> Null, county |-> Null, siteType |-> Null, nationalMonument |-> Null]

\* The value of a filter control: the option chosen in a select, or whether
\* the checkbox is checked.
ControlValues ==
    [era |-> {"", "1"}, county |-> {"", "1"}, siteType |-> {"", "castle"},
     nationalMonument |-> {"true", "false"}]

\* The values setFilter is called with.
FilterValues ==
    [era |-> {Null, "1"}, county |-> {Null, "1"}, siteType |-> {Null, "castle"},
     nationalMonument |-> {Null, "true", "false"}]

\* JavaScript truthiness of the values above.
Truthy(v) == v \notin {Null, "", "false"}

\* a || null
OrNull(v) == IF Truthy(v) THEN v ELSE Null

\* The query parameter a filter is sent as (map.js:366-371).
ParamOf == [era |-> "era", county |-> "county", siteType |-> "site_type",
            nationalMonument |-> "national_monument"]

\* loadSites with the era parameter appended whatever the filter holds.
BuildParams_AlwaysEra(f) ==
    LET sent == {n \in FilterNames : Truthy(f[n])} \cup {"era"}
    IN  [k \in {"page_size"} \cup {ParamOf[n] : n \in sent} |->
            IF k = "page_size" THEN "2000"
            ELSE IF k = "national_monument" THEN "true"
            ELSE f[CHOOSE n \in FilterNames : ParamOf[n] = k]]

\* map.js:359-371, the URLSearchParams loadSites builds from currentFilters.
BuildParams(f) ==
    LET sent == {n \in FilterNames : Truthy(f[n])}
    IN  [k \in {"page_size"} \cup {ParamOf[n] : n \in sent} |->
            IF k = "page_size" THEN "2000"
            ELSE IF k = "national_monument" THEN "true"
            ELSE f[CHOOSE n \in FilterNames : ParamOf[n] = k]]

\* The approved sites the server holds.
SampleSites ==
    {[id |-> 1, era |-> "1", county |-> "1", site_type |-> "castle", national_monument |-> "true"],
     [id |-> 2, era |-> "1", county |-> "2", site_type |-> "castle", national_monument |-> "false"],
     [id |-> 3, era |-> "2", county |-> "1", site_type |-> "abbey", national_monument |-> "false"],
     [id |-> 4, era |-> "2", county |-> "1", site_type |-> "castle", national_monument |-> "true"]}

\* GET /api/v1/sites/ on the server: the sites matching every parameter of
\* the request; a parameter that is absent constrains nothing.
SitesList(params) ==
    {s.id : s \in {t \in SampleSites :
                     \A k \in DOMAIN params \ {"page_size"} : t[k] = params[k]}}

NoLoad == [kind |-> "none", outcome |-> "none", toast |-> "none"]
NoRequest == [params |-> << >>, filters |-> NoFilters, issued |-> FALSE]
NoResponse == [endpoint |-> "none", kind |-> "none", features |-> {}]

\* What a response to a list request can be: a paginated wrapper with the
\* FeatureCollection in results, a FeatureCollection, a body that is neither,
\* a response that is not ok, or no response (fetch rejects).
ResponseKinds == {"paginated", "direct", "other", "http_error", "network_error"}

\* map.js:356-377, loadSites up to its fetch: the overlay is shown and the
\* request is built from the filters as they are now.
loadSitesStart(f) ==
    /\ sitesInFlight' = Append(sitesInFlight,
                               [params |-> BuildParams(f), filters |-> f, issued |-> TRUE])
    /\ loadingShown' = TRUE

\* map.js:1649-1667, applyFilters with the controls holding c.
applyFilters(c) ==
    /\ currentFilters' = [n \in FilterNames |-> OrNull(c[n])]
    /\ loadSitesStart(currentFilters')
    /\ loadDone' = [kind |-> "applyFilters", outcome |-> "none", toast |-> "success:Filters applied"]
    /\ lastResponse' = NoResponse
    /\ UNCHANGED <<markers, markersFrom, siteCount>>
    /\ UNCHANGED <<nearbyPending, boundaryInFlight, boundaryLayer>>
    /\ UNCHANGED notLoadVars

\* map.js:1669-1679, clearFilters
clearFilters ==
    /\ currentFilters' = NoFilters
    /\ loadSitesStart(currentFilters')
    /\ loadDone' = [kind |-> "clearFilters", outcome |-> "none", toast |-> "info:Filters cleared"]
    /\ lastResponse' = NoResponse
    /\ UNCHANGED <<markers, markersFrom, siteCount>>
    /\ UNCHANGED <<nearbyPending, boundaryInFlight, boundaryLayer>>
    /\ UNCHANGED notLoadVars

\* map.js:1935-1938, IrishGIS.map.setFilter(filterName, value)
setFilter(name, value) ==
    /\ currentFilters' = [currentFilters EXCEPT ![name] = value]
    /\ loadSitesStart(currentFilters')
    /\ loadDone' = [kind |-> "setFilter", outcome |-> "none", toast |-> "none"]
    /\ lastResponse' = NoResponse
    /\ UNCHANGED <<markers, markersFrom, siteCount>>
    /\ UNCHANGED <<nearbyPending, boundaryInFlight, boundaryLayer>>
    /\ UNCHANGED notLoadVars

\* map.js:1465-1467, the languageChanged listener
LanguageChanged ==
    /\ loadSitesStart(currentFilters)
    /\ loadDone' = [kind |-> "languageChanged", outcome |-> "none", toast |-> "none"]
    /\ lastResponse' = NoResponse
    /\ UNCHANGED <<currentFilters, markers, markersFrom, siteCount>>
    /\ UNCHANGED <<nearbyPending, boundaryInFlight, boundaryLayer>>
    /\ UNCHANGED notLoadVars

\* What each requester of the page shows when its GET is answered with a
\* response that is not ok, or its fetch rejects: loadSites (map.js:419-421)
\* and performNearbySearch (map.js:1404-1406) show an error toast,
\* loadCounties (map.js:479-481), loadProvinces (map.js:495-497) and
\* checkJourneyStatus (map.js:1691, 1698-1701) only log or return null.
\* Each catches the error: none throws.
ErrorToast(endpoint) ==
    CASE endpoint = "sites" -> "error:Failed to load historical sites"
      [] endpoint = "nearby" -> "error:Search failed. Please try again."
      [] OTHER -> "none"

\* loadSites clearing the layers before it has a usable response.
SitesResponse_ClearsFirst(i, kind) ==
    /\ i \in DOMAIN sitesInFlight
    /\ sitesInFlight' = [j \in 1..(Len(sitesInFlight) - 1) |->
                            IF j < i THEN sitesInFlight[j] ELSE sitesInFlight[j + 1]]
    /\ IF kind \in {"paginated", "direct"}
       THEN LET features == SitesList(sitesInFlight[i].params)
            IN  /\ markers' = features
                /\ markersFrom' = sitesInFlight[i]
                /\ siteCount' = Cardinality(features)
                /\ loadDone' = [kind |-> "loadSites", outcome |-> kind,
                                toast |-> IF Cardinality(features) > 0
                                          THEN "success:Loaded sites" ELSE "none"]
       ELSE /\ loadDone' = [kind |-> "loadSites", outcome |-> kind,
                            toast |-> ErrorToast("sites")]
            /\ markers' = {}
            /\ UNCHANGED <<markersFrom, siteCount>>
    /\ lastResponse' = [endpoint |-> "sites", kind |-> kind,
                        features |-> SitesList(sitesInFlight[i].params)]
    /\ loadingShown' = FALSE
    /\ UNCHANGED currentFilters
    /\ UNCHANGED <<nearbyPending, boundaryInFlight, boundaryLayer>>
    /\ UNCHANGED notLoadVars

\* map.js:377-423, loadSites from the response of its fetch on: request i
\* is answered with a response of the given kind.
SitesResponse(i, kind) ==
    /\ i \in DOMAIN sitesInFlight
    /\ sitesInFlight' = [j \in 1..(Len(sitesInFlight) - 1) |->
                            IF j < i THEN sitesInFlight[j] ELSE sitesInFlight[j + 1]]
    /\ IF kind \in {"paginated", "direct"}
       THEN LET features == SitesList(sitesInFlight[i].params)
            IN  /\ markers' = features
                /\ markersFrom' = sitesInFlight[i]
                /\ siteCount' = Cardinality(features)
                /\ loadDone' = [kind |-> "loadSites", outcome |-> kind,
                                toast |-> IF Cardinality(features) > 0
                                          THEN "success:Loaded sites" ELSE "none"]
       ELSE /\ loadDone' = [kind |-> "loadSites", outcome |-> kind,
                            toast |-> ErrorToast("sites")]
            /\ UNCHANGED <<markers, markersFrom, siteCount>>
    /\ lastResponse' = [endpoint |-> "sites", kind |-> kind,
                        features |-> SitesList(sitesInFlight[i].params)]
    /\ loadingShown' = FALSE
    /\ UNCHANGED currentFilters
    /\ UNCHANGED <<nearbyPending, boundaryInFlight, boundaryLayer>>
    /\ UNCHANGED notLoadVars

\* The features the nearby endpoint finds around a clicked point, and the
\* features of the two boundary endpoints.
NearbyFeatureSets == {{}, {1, 2}}
BoundaryLayers == {"counties", "provinces"}
BoundaryFeatures == [counties |-> {1, 2}, provinces |-> {1}]

\* map.js:1358-1369, performNearbySearch up to its fetch (the map click of
\* the nearby tool): the overlay is shown and the request is sent.
performNearbySearchStart ==
    /\ nearbyPending < MaxLoads
    /\ nearbyPending' = nearbyPending + 1
    /\ loadingShown' = TRUE
    /\ loadDone' = [kind |-> "nearbyClick", outcome |-> "none", toast |-> "none"]
    /\ lastResponse' = NoResponse
    /\ UNCHANGED <<currentFilters, sitesInFlight, markers, markersFrom, siteCount,
                   boundaryInFlight, boundaryLayer>>
    /\ UNCHANGED notLoadVars

\* map.js:1369-1409, performNearbySearch from the response of its fetch on.
\* Only a body with a features member of its own is displayed.
NearbyResponse(kind, features) ==
    /\ nearbyPending > 0
    /\ nearbyPending' = nearbyPending - 1
    /\ IF kind = "direct" /\ features # {}
       THEN /\ markers' = features
            /\ markersFrom' = NoRequest
            /\ loadDone' = [kind |-> "nearby", outcome |-> kind, toast |-> "success:Found sites"]
       ELSE /\ loadDone' = [kind |-> "nearby", outcome |-> kind,
                            toast |-> IF kind \in {"http_error", "network_error"}
                                      THEN ErrorToast("nearby")
                                      ELSE "info:No sites found"]
            /\ UNCHANGED <<markers, markersFrom>>
    /\ lastResponse' = [endpoint |-> "nearby", kind |-> kind, features |-> features]
    /\ loadingShown' = FALSE
    /\ UNCHANGED <<currentFilters, sitesInFlight, siteCount, boundaryInFlight, boundaryLayer>>
    /\ UNCHANGED notLoadVars

\* map.js:471-473 / 487-489, loadCounties and loadProvinces up to their fetch.
loadBoundaryStart(layer) ==
    /\ layer \notin boundaryInFlight
    /\ boundaryInFlight' = boundaryInFlight \cup {layer}
    /\ loadDone' = [kind |-> "loadBoundary", outcome |-> "none", toast |-> "none"]
    /\ lastResponse' = NoResponse
    /\ UNCHANGED <<currentFilters, sitesInFlight, markers, markersFrom, siteCount,
                   loadingShown, nearbyPending, boundaryLayer>>
    /\ UNCHANGED notLoadVars

\* map.js:473-481 / 489-497, loadCounties and loadProvinces from the
\* response on: the layer is cleared and the body handed to addData, which
\* adds the features of a FeatureCollection and throws 'Invalid GeoJSON
\* object.' for a body without features, geometry or type.
BoundaryResponse(layer, kind) ==
    /\ layer \in boundaryInFlight
    /\ boundaryInFlight' = boundaryInFlight \ {layer}
    /\ boundaryLayer' =
          IF kind = "direct" THEN [boundaryLayer EXCEPT ![layer] = BoundaryFeatures[layer]]
          ELSE IF kind \in {"paginated", "other"} THEN [boundaryLayer EXCEPT ![layer] = {}]
          ELSE boundaryLayer
    /\ loadDone' = [kind |-> layer, outcome |-> kind,
                    toast |-> IF kind \in {"http_error", "network_error"}
                              THEN ErrorToast(layer) ELSE "none"]
    /\ lastResponse' = [endpoint |-> layer, kind |-> kind, features |-> BoundaryFeatures[layer]]
    /\ UNCHANGED <<currentFilters, sitesInFlight, markers, markersFrom, siteCount,
                   loadingShown, nearbyPending>>
    /\ UNCHANGED notLoadVars

\* The state when initMap has run (map.js:141-150): no filter, no marker,
\* the first loadSites call awaiting its response.
InitLoad ==
    /\ currentFilters = NoFilters
    /\ sitesInFlight = <<[params |-> BuildParams(NoFilters), filters |-> NoFilters,
                          issued |-> TRUE]>>
    /\ markers = {}
    /\ markersFrom = NoRequest
    /\ siteCount = 0
    /\ loadingShown = TRUE
    /\ loadDone = NoLoad
    /\ nearbyPending = 0
    /\ boundaryInFlight = BoundaryLayers
    /\ boundaryLayer = [l \in BoundaryLayers |-> {}]
    /\ lastResponse = NoResponse

\* The page has no limit on the loadSites requests in flight; each
\* specification caps them.
CanLoad(n) == Len(sitesInFlight) < n

NextFilter ==
    \/ CanLoad(MaxLoads) /\ \E c \in [era : ControlValues.era, county : ControlValues.county,
                                       siteType : ControlValues.siteType,
                                       nationalMonument : ControlValues.nationalMonument] :
                                applyFilters(c)
    \/ CanLoad(MaxLoads) /\ clearFilters
    \/ CanLoad(MaxLoads) /\ \E n \in FilterNames : \E v \in FilterValues[n] : setFilter(n, v)
    \/ CanLoad(MaxLoads) /\ LanguageChanged
    \/ \E i \in 1..MaxLoads, kind \in ResponseKinds : SitesResponse(i, kind)

(***************************************************************************)
(* SERVICE WORKER (sw.js): its life cycle, request classification and the  *)
(* caching strategies. A URL is its protocol, hostname, path segments and  *)
(* file extension. The name of a cache is the sequence of its parts, so    *)
(* that startsWith and includes can be asked of it.                        *)
(***************************************************************************)
CACHE_VERSION == "v1.0.0"
STATIC_CACHE == <<"irish-gis-", "static-", CACHE_VERSION>>
DYNAMIC_CACHE == <<"irish-gis-", "dynamic-", CACHE_VERSION>>
API_CACHE == <<"irish-gis-", "api-", CACHE_VERSION>>
TILE_CACHE == <<"irish-gis-", "tiles-", CACHE_VERSION>>
NoCache == <<"none">>

\* Caches this worker does not open: those of a deployment whose
\* CACHE_VERSION was v0.9.0, of one whose CACHE_VERSION was v1.0.0-beta, and
\* one of another script of the origin.
OtherCacheNames == {<<"irish-gis-", "static-", "v0.9.0">>,
                    <<"irish-gis-", "static-", CACHE_VERSION, "-beta">>,
                    <<"app-", "settings">>}

AppHost == "irish-gis.example"
TileHosts == {"a.tile.openstreetmap.org", "a.tile.opentopomap.org", "server.arcgisonline.com"}
CdnHosts == {"unpkg.com", "cdnjs.cloudflare.com", "cdn.jsdelivr.net"}
AssetExtensions == {"css", "js", "svg", "png", "jpg", "jpeg", "gif", "webp", "woff", "woff2",
                    "ttf", "eot"}

SitesUrl == [protocol |-> "https:", hostname |-> AppHost,
             pathname |-> <<"api", "v1", "sites">>, ext |-> ""]
CountiesUrl == [protocol |-> "https:", hostname |-> AppHost,
                pathname |-> <<"api", "v1", "counties">>, ext |-> ""]
BucketListUrl == [protocol |-> "https:", hostname |-> AppHost,
                  pathname |-> <<"api", "v1", "bucket-list">>, ext |-> ""]
BucketItemUrl == [protocol |-> "https:", hostname |-> AppHost,
                  pathname |-> <<"api", "v1", "bucket-list", "1">>, ext |-> ""]
ExploreUrl == [protocol |-> "https:", hostname |-> AppHost,
               pathname |-> <<"explore", "">>, ext |-> ""]
OfflineUrl == [protocol |-> "https:", hostname |-> AppHost,
               pathname |-> <<"offline", "">>, ext |-> ""]
ThemeCssUrl == [protocol |-> "https:", hostname |-> AppHost,
                pathname |-> <<"static", "css", "theme.css">>, ext |-> "css"]
LeafletJsUrl == [protocol |-> "https:", hostname |-> "unpkg.com",
                 pathname |-> <<"leaflet@1.9.4", "dist", "leaflet.js">>, ext |-> "js"]
TileUrl == [protocol |-> "https:", hostname |-> "a.tile.openstreetmap.org",
            pathname |-> <<"7", "61", "41.png">>, ext |-> "png"]

\* sw.js:20-35 and 38-46: the precache lists, one URL of each kind.
STATIC_ASSETS == {ExploreUrl, OfflineUrl, ThemeCssUrl}
CDN_ASSETS == {LeafletJsUrl}

Get(u) == [method |-> "GET", url |-> u, mode |-> "cors", acceptsHtml |-> FALSE]
Navigate(u) == [method |-> "GET", url |-> u, mode |-> "navigate", acceptsHtml |-> TRUE]

\* The requests the map page sends to the API (map.js:41-52, 1688-1850).
ApiRequests ==
    {[method |-> "GET", url |-> u, mode |-> "cors", acceptsHtml |-> FALSE] :
        u \in {SitesUrl, CountiesUrl, BucketListUrl}}
    \cup {[method |-> "POST", url |-> BucketListUrl, mode |-> "cors", acceptsHtml |-> FALSE],
          [method |-> "DELETE", url |-> BucketItemUrl, mode |-> "cors", acceptsHtml |-> FALSE]}

\* A navigation to the map page and the loads of a stylesheet of the
\* application and of a script of the CDN.
PageRequests == {Navigate(ExploreUrl), Get(ThemeCssUrl), Get(LeafletJsUrl)}

\* One GET for each strategy and cache the listener routes to.
StrategyRequests == {Get(SitesUrl), Navigate(ExploreUrl), Get(ThemeCssUrl), Get(TileUrl)}

\* url.pathname.startsWith('/api/')
isApiRequest(url) == Len(url.pathname) >= 2 /\ url.pathname[1] = "api"

\* a tile host, or '/tile/' somewhere in the path
isMapTile(url) ==
    \/ url.hostname \in TileHosts
    \/ \E i \in 1..(Len(url.pathname) - 1) : url.pathname[i] = "tile"

\* url.pathname.startsWith('/static/') or a file extension of an asset
isStaticAsset(url) ==
    \/ Len(url.pathname) >= 2 /\ url.pathname[1] = "static"
    \/ url.ext \in AssetExtensions

isCdnAsset(url) == url.hostname \in CdnHosts

isNavigationRequest(request) == request.mode = "navigate" \/ request.acceptsHtml

\* The routing without the test of the request method.
Route_AnyMethod(request) ==
    IF isApiRequest(request.url) THEN [strategy |-> "networkFirst", cache |-> API_CACHE]
    ELSE [strategy |-> "networkFirst", cache |-> DYNAMIC_CACHE]

\* sw.js:113-141, the fetch listener's routing: the strategy and the cache
\* a request is handled with, "none" when the listener returns without
\* respondWith.
Route(request) ==
    IF request.method # "GET" THEN [strategy |-> "none", cache |-> NoCache]
    ELSE IF request.url.protocol \notin {"http:", "https:"}
         THEN [strategy |-> "none", cache |-> NoCache]
    ELSE IF isApiRequest(request.url) THEN [strategy |-> "networkFirst", cache |-> API_CACHE]
    ELSE IF isMapTile(request.url) THEN [strategy |-> "cacheFirst", cache |-> TILE_CACHE]
    ELSE IF isStaticAsset(request.url) THEN [strategy |-> "cacheFirst", cache |-> STATIC_CACHE]
    ELSE IF isCdnAsset(request.url) THEN [strategy |-> "cacheFirst", cache |-> DYNAMIC_CACHE]
    ELSE IF isNavigationRequest(request)
         THEN [strategy |-> "staleWhileRevalidate", cache |-> DYNAMIC_CACHE]
    ELSE [strategy |-> "networkFirst", cache |-> DYNAMIC_CACHE]

\* Responses: what the network answers, and the 503s the worker makes up
\* for a request it can answer neither from the network nor a cache.
NetworkStatuses == {200, 404, 500}
NetworkResponse(status) == [status |-> status, body |-> "data", ver |-> serverVer]
OfflineJson == [status |-> 503, body |-> "offline", ver |-> 0]
OfflineHtml == [status |-> 503, body |-> "offline-html", ver |-> 0]
Empty503 == [status |-> 503, body |-> "", ver |-> 0]
NoResp == [status |-> 0, body |-> "none", ver |-> 0]
Ok(resp) == resp.status >= 200 /\ resp.status <= 299

NoServed == [request |-> [method |-> "none", url |-> SitesUrl, mode |-> "cors",
                          acceptsHtml |-> FALSE],
             source |-> "none", net |-> NoResp, resp |-> NoResp, cached |-> NoResp,
             cacheRead |-> FALSE]

\* cache.match(request) in the cache named c: the entry of the URL, if any.
CacheMatch(c, url) ==
    IF \E e \in swCache : e.cache = c /\ e.url = url
    THEN (CHOOSE e \in swCache : e.cache = c /\ e.url = url).resp
    ELSE NoResp

\* caches.match(url): the entry of the URL in whichever cache holds one.
CachesMatch(url) ==
    IF \E e \in swCache : e.url = url
    THEN (CHOOSE e \in swCache : e.url = url).resp
    ELSE NoResp

\* A put that leaves an entry the cache already holds as it is.
CachePut_KeepOld(c, url, resp) ==
    IF \E e \in swCache : e.cache = c /\ e.url = url THEN swCache
    ELSE swCache \cup {[cache |-> c, url |-> url, resp |-> resp]}

\* cache.put(request, response) in the cache named c.
CachePut(c, url, resp) ==
    {e \in swCache : ~(e.cache = c /\ e.url = url)} \cup {[cache |-> c, url |-> url, resp |-> resp]}

\* cache.put whatever the response is.
PutIfOk_Always(c, url, resp) == CachePut(c, url, resp)

\* cache.put unless the server reports an error of its own.
PutIfOk_Below500(c, url, resp) == IF resp.status < 500 THEN CachePut(c, url, resp) ELSE swCache

\* if (networkResponse.ok) cache.put(request, networkResponse.clone())
PutIfOk(c, url, resp) == IF Ok(resp) THEN CachePut(c, url, resp) ELSE swCache

\* sw.js:295-339, createOfflineResponse: for a navigation the cached
\* offline page or a 503 page made up, for any other request an empty 503.
createOfflineResponse(request) ==
    IF isNavigationRequest(request)
    THEN IF CachesMatch(OfflineUrl) # NoResp THEN CachesMatch(OfflineUrl) ELSE OfflineHtml
    ELSE Empty503

Served(request, source, net, resp, cached, cacheRead) ==
    [request |-> request, source |-> source, net |-> net, resp |-> resp, cached |-> cached,
     cacheRead |-> cacheRead]

Pending(request, strategy, cache, answered) ==
    [request |-> request, strategy |-> strategy, cache |-> cache, answered |-> answered]

\* sw.js:56-70: cache.addAll(STATIC_ASSETS) stores every asset in the static
\* cache or, when one of them cannot be fetched, none; cache.add stores a
\* CDN asset in the dynamic cache unless it cannot be fetched.
PrecacheEntries(staticOk, cdnOk) ==
    {[cache |-> STATIC_CACHE, url |-> u, resp |-> NetworkResponse(200)] :
        u \in IF staticOk THEN STATIC_ASSETS ELSE {}}
    \cup {[cache |-> DYNAMIC_CACHE, url |-> u, resp |-> NetworkResponse(200)] :
            u \in IF cdnOk THEN CDN_ASSETS ELSE {}}

\* sw.js:51-79, the install listener: both caches are opened and filled as
\* far as the assets can be fetched; a failure is caught and logged.
Install(staticOk, cdnOk) ==
    /\ swLifecycle = "new"
    /\ swLifecycle' = "installed"
    /\ cacheNames' = cacheNames \cup {STATIC_CACHE, DYNAMIC_CACHE}
    /\ swCache' = swCache \cup PrecacheEntries(staticOk, cdnOk)
    /\ swServed' = [NoServed EXCEPT !.source = "install"]
    /\ UNCHANGED <<swPending, serverVer>>
    /\ UNCHANGED notSwVars

\* sw.js:92-96: cacheName.startsWith('irish-gis-') &&
\* !cacheName.includes(CACHE_VERSION)
IsOldCache(cacheName) ==
    /\ cacheName[1] = "irish-gis-"
    /\ ~\E i \in 1..Len(cacheName) : cacheName[i] = CACHE_VERSION

\* sw.js:84-106, the activate listener: every cache the filter selects is
\* deleted, and the worker claims the pages.
Activate ==
    /\ swLifecycle = "installed"
    /\ swLifecycle' = "activated"
    /\ cacheNames' = {n \in cacheNames : ~IsOldCache(n)}
    /\ swCache' = {e \in swCache : ~IsOldCache(e.cache)}
    /\ swServed' = [NoServed EXCEPT !.source = "activate"]
    /\ UNCHANGED <<swPending, serverVer>>
    /\ UNCHANGED notSwVars

\* Another script of the origin, or the worker of another deployment,
\* opens a cache of its own.
OtherCacheOpened(name) ==
    /\ name \notin cacheNames
    /\ cacheNames' = cacheNames \cup {name}
    /\ swServed' = NoServed
    /\ UNCHANGED <<swCache, swPending, serverVer, swLifecycle>>
    /\ UNCHANGED notSwVars

\* sw.js:113-141, the fetch listener for a request of a page the worker
\* controls, with each strategy up to its fetch (sw.js:183-188, 214-217,
\* 256-265). A request the listener does not answer goes to the network as
\* the browser sends it. cacheFirstStrategy answers a hit at once and
\* refreshes a tile in the background; staleWhileRevalidate answers a hit
\* at once and fetches either way; networkFirstStrategy fetches.
FetchEvent(request) ==
    /\ swLifecycle = "activated"
    /\ LET r == Route(request)
           cachedResponse == CacheMatch(r.cache, request.url)
           hit == cachedResponse # NoResp
       IN  CASE r.strategy = "none" ->
                  /\ swServed' = Served(request, "passthrough", NoResp, NoResp, NoResp, FALSE)
                  /\ UNCHANGED <<swPending, cacheNames>>
             [] r.strategy = "networkFirst" ->
                  /\ Len(swPending) < MaxFetches
                  /\ swPending' = Append(swPending, Pending(request, r.strategy, r.cache, FALSE))
                  /\ swServed' = NoServed
                  /\ cacheNames' = cacheNames \cup {r.cache}
             [] r.strategy = "cacheFirst" ->
                  /\ Len(swPending) < MaxFetches
                  /\ swPending' =
                        IF ~hit THEN Append(swPending, Pending(request, r.strategy, r.cache, FALSE))
                        ELSE IF r.cache = TILE_CACHE
                             THEN Append(swPending, Pending(request, "refreshCache", r.cache, TRUE))
                             ELSE swPending
                  /\ swServed' = IF hit THEN Served(request, "cache", NoResp, cachedResponse,
                                                    cachedResponse, TRUE)
                                 ELSE NoServed
                  /\ cacheNames' = cacheNames \cup {r.cache}
             [] r.strategy = "staleWhileRevalidate" ->
                  /\ Len(swPending) < MaxFetches
                  /\ swPending' = Append(swPending, Pending(request, r.strategy, r.cache, hit))
                  /\ swServed' = IF hit THEN Served(request, "cache", NoResp, cachedResponse,
                                                    cachedResponse, TRUE)
                                 ELSE NoServed
                  /\ cacheNames' = cacheNames \cup {r.cache}
    /\ UNCHANGED <<swCache, serverVer, swLifecycle>>
    /\ UNCHANGED notSwVars

RemoveAt(q, i) == [j \in 1..(Len(q) - 1) |-> IF j < i THEN q[j] ELSE q[j + 1]]

\* sw.js:213-225, networkFirstStrategy when its fetch resolves with a
\* response of the given status.
NetworkFirstResponds(i, status) ==
    /\ i \in DOMAIN swPending
    /\ swPending[i].strategy = "networkFirst"
    /\ LET p == swPending[i]
           resp == NetworkResponse(status)
       IN  /\ swCache' = PutIfOk(p.cache, p.request.url, resp)
           /\ swServed' = Served(p.request, "network", resp, resp,
                                 CacheMatch(p.cache, p.request.url), FALSE)
    /\ swPending' = RemoveAt(swPending, i)
    /\ UNCHANGED <<serverVer, swLifecycle, cacheNames>>
    /\ UNCHANGED notSwVars

\* sw.js:226-248, networkFirstStrategy when its fetch rejects: the cached
\* response if there is one, else the 503 'offline' JSON for an API request
\* and the offline response for any other.
NetworkFirstFails(i) ==
    /\ i \in DOMAIN swPending
    /\ swPending[i].strategy = "networkFirst"
    /\ LET p == swPending[i]
           cachedResponse == CacheMatch(p.cache, p.request.url)
       IN  swServed' =
              IF cachedResponse # NoResp
              THEN Served(p.request, "cache", NoResp, cachedResponse, cachedResponse, TRUE)
              ELSE IF isApiRequest(p.request.url)
                   THEN Served(p.request, "offline", NoResp, OfflineJson, cachedResponse, TRUE)
                   ELSE Served(p.request, "offlineResponse", NoResp,
                               createOfflineResponse(p.request), cachedResponse, TRUE)
    /\ swPending' = RemoveAt(swPending, i)
    /\ UNCHANGED <<swCache, serverVer, swLifecycle, cacheNames>>
    /\ UNCHANGED notSwVars

\* sw.js:196-201, cacheFirstStrategy after a miss, when its fetch resolves.
CacheFirstResponds(i, status) ==
    /\ i \in DOMAIN swPending
    /\ swPending[i].strategy = "cacheFirst"
    /\ LET p == swPending[i]
           resp == NetworkResponse(status)
       IN  /\ swCache' = PutIfOk(p.cache, p.request.url, resp)
           /\ swServed' = Served(p.request, "network", resp, resp, NoResp, TRUE)
    /\ swPending' = RemoveAt(swPending, i)
    /\ UNCHANGED <<serverVer, swLifecycle, cacheNames>>
    /\ UNCHANGED notSwVars

\* sw.js:202-205, cacheFirstStrategy after a miss, when its fetch rejects.
CacheFirstFails(i) ==
    /\ i \in DOMAIN swPending
    /\ swPending[i].strategy = "cacheFirst"
    /\ LET p == swPending[i]
       IN  swServed' = Served(p.request, "offlineResponse", NoResp,
                              createOfflineResponse(p.request), NoResp, TRUE)
    /\ swPending' = RemoveAt(swPending, i)
    /\ UNCHANGED <<swCache, serverVer, swLifecycle, cacheNames>>
    /\ UNCHANGED notSwVars

\* sw.js:261-275, staleWhileRevalidate when its fetch resolves: the cache
\* is updated with an ok response, and the response is returned if no
\* cached one was.
RevalidateResponds(i, status) ==
    /\ i \in DOMAIN swPending
    /\ swPending[i].strategy = "staleWhileRevalidate"
    /\ LET p == swPending[i]
           resp == NetworkResponse(status)
       IN  /\ swCache' = PutIfOk(p.cache, p.request.url, resp)
           /\ swServed' = IF p.answered
                          THEN Served(p.request, "background", resp, NoResp,
                                      CacheMatch(p.cache, p.request.url), FALSE)
                          ELSE Served(p.request, "network", resp, resp, NoResp, TRUE)
    /\ swPending' = RemoveAt(swPending, i)
    /\ UNCHANGED <<serverVer, swLifecycle, cacheNames>>
    /\ UNCHANGED notSwVars

\* sw.js:266, 273-278, staleWhileRevalidate when its fetch rejects.
RevalidateFails(i) ==
    /\ i \in DOMAIN swPending
    /\ swPending[i].strategy = "staleWhileRevalidate"
    /\ LET p == swPending[i]
       IN  swServed' = IF p.answered
                       THEN Served(p.request, "background", NoResp, NoResp,
                                   CacheMatch(p.cache, p.request.url), FALSE)
                       ELSE Served(p.request, "offlineResponse", NoResp,
                                   createOfflineResponse(p.request), NoResp, TRUE)
    /\ swPending' = RemoveAt(swPending, i)
    /\ UNCHANGED <<swCache, serverVer, swLifecycle, cacheNames>>
    /\ UNCHANGED notSwVars

\* sw.js:284-290, refreshCache when its fetch resolves or rejects
\* (status 0).
RefreshDone(i, status) ==
    /\ i \in DOMAIN swPending
    /\ swPending[i].strategy = "refreshCache"
    /\ LET p == swPending[i]
           resp == IF status = 0 THEN NoResp ELSE NetworkResponse(status)
       IN  /\ swCache' = PutIfOk(p.cache, p.request.url, resp)
           /\ swServed' = Served(p.request, "background", resp, NoResp,
                                 CacheMatch(p.cache, p.request.url), FALSE)
    /\ swPending' = RemoveAt(swPending, i)
    /\ UNCHANGED <<serverVer, swLifecycle, cacheNames>>
    /\ UNCHANGED notSwVars

\* The content on the server changes.
ServerUpdate ==
    /\ serverVer < MaxVer
    /\ serverVer' = serverVer + 1
    /\ swServed' = NoServed
    /\ UNCHANGED <<swCache, swPending, swLifecycle, cacheNames>>
    /\ UNCHANGED notSwVars

InitSw ==
    /\ swCache = {}
    /\ swPending = <<>>
    /\ serverVer = 1
    /\ swServed = NoServed
    /\ swLifecycle = "new"
    /\ cacheNames = {}

NextSwApi ==
    \/ \E staticOk \in BOOLEAN, cdnOk \in BOOLEAN : Install(staticOk, cdnOk)
    \/ Activate
    \/ \E request \in ApiRequests : FetchEvent(request)
    \/ \E i \in 1..MaxFetches, status \in NetworkStatuses : NetworkFirstResponds(i, status)
    \/ \E i \in 1..MaxFetches : NetworkFirstFails(i)
    \/ ServerUpdate

NextSwPages ==
    \/ \E staticOk \in BOOLEAN, cdnOk \in BOOLEAN : Install(staticOk, cdnOk)
    \/ Activate
    \/ \E request \in PageRequests : FetchEvent(request)
    \/ \E i \in 1..MaxFetches, status \in NetworkStatuses : CacheFirstResponds(i, status)
    \/ \E i \in 1..MaxFetches : CacheFirstFails(i)
    \/ \E i \in 1..MaxFetches, status \in NetworkStatuses : RevalidateResponds(i, status)
    \/ \E i \in 1..MaxFetches : RevalidateFails(i)
    \/ ServerUpdate

NextSwLifecycle ==
    \/ \E staticOk \in BOOLEAN, cdnOk \in BOOLEAN : Install(staticOk, cdnOk)
    \/ Activate
    \/ \E name \in OtherCacheNames : OtherCacheOpened(name)
    \/ \E request \in StrategyRequests : FetchEvent(request)
    \/ ServerUpdate

NextSwStrategies ==
    \/ \E staticOk \in BOOLEAN, cdnOk \in BOOLEAN : Install(staticOk, cdnOk)
    \/ Activate
    \/ \E request \in StrategyRequests : FetchEvent(request)
    \/ \E i \in 1..MaxFetches, status \in NetworkStatuses : NetworkFirstResponds(i, status)
    \/ \E i \in 1..MaxFetches : NetworkFirstFails(i)
    \/ \E i \in 1..MaxFetches, status \in NetworkStatuses : CacheFirstResponds(i, status)
    \/ \E i \in 1..MaxFetches : CacheFirstFails(i)
    \/ \E i \in 1..MaxFetches, status \in NetworkStatuses : RevalidateResponds(i, status)
    \/ \E i \in 1..MaxFetches : RevalidateFails(i)
    \/ \E i \in 1..MaxFetches, status \in NetworkStatuses \cup {0} : RefreshDone(i, status)
    \/ ServerUpdate

(***************************************************************************)
(* SCHEMA CONSTRAINTS (database_schema.sql:108-150, 302-319) and           *)
(* createSiteMarker (map.js:507-534). Coordinates are tenths of a degree;  *)
(* a polygon geometry is represented by its bounding box, which is all the *)
(* trigger reads of it.                                                    *)
(***************************************************************************)
SqlNull == "NULL"
SqlDefault == "DEFAULT"

\* Longitudes and latitudes on, inside and beyond the envelope's edges.
Lons == {-120, -110, -80, -50, -40}
Lats == {500, 510, 560, 570}
\* The bounding boxes written: the envelope itself, and those that differ
\* from it in one edge, moved inwards or beyond.
Envelope == [xmin |-> -110, xmax |-> -50, ymin |-> 510, ymax |-> 560]
Geometries ==
    {g \in [xmin : Lons, xmax : Lons, ymin : Lats, ymax : Lats] :
        /\ g.xmin < g.xmax /\ g.ymin < g.ymax
        /\ Cardinality({f \in {"xmin", "xmax", "ymin", "ymax"} : g[f] # Envelope[f]}) <= 1}
BoundaryTables == {"province", "county"}
GeoIds == 1..MaxGeoRows

\* The places a site is inserted at: Athlone, the envelope's corner, a
\* point east of the envelope that the client's wider bounds still hold,
\* and Paris.
SiteLocations == {[lon |-> -80, lat |-> 534], [lon |-> -110, lat |-> 510],
                  [lon |-> -47, lat |-> 540], [lon |-> 23, lat |-> 488]}
StatusValues == ApprovalStatuses \cup {"bogus", SqlNull}

NoSql == [table |-> "none", op |-> "none", id |-> 0, outcome |-> "none"]

\* The function without its test of the northern edge.
validate_ireland_bounds_NoYMax(new) ==
    new.geometry.xmin < -110 \/ new.geometry.xmax > -50 \/ new.geometry.ymin < 510

\* database_schema.sql:302-311, validate_ireland_bounds: TRUE when the
\* function raises 'Geometry extends beyond Ireland boundaries'.
validate_ireland_bounds(new) ==
    \/ new.geometry.xmin < -110
    \/ new.geometry.xmax > -50
    \/ new.geometry.ymin < 510
    \/ new.geometry.ymax > 560

TableRows(table) == IF table = "province" THEN province ELSE county

\* The statement's effect on the two tables, given its outcome.
BoundaryWrite(table, written, raised) ==
    /\ province' = IF table = "province" /\ ~raised THEN written ELSE province
    /\ county' = IF table = "county" /\ ~raised THEN written ELSE county

\* INSERT INTO province | county (geometry) VALUES (g): the BEFORE INSERT
\* row trigger (database_schema.sql:313-319) runs on the new row.
InsertBoundary(table, id, g) ==
    /\ \A r \in TableRows(table) : r.id # id
    /\ LET new == [id |-> id, geometry |-> g]
           raised == validate_ireland_bounds(new)
       IN  /\ BoundaryWrite(table, TableRows(table) \cup {new}, raised)
           /\ lastSql' = [table |-> table, op |-> "INSERT", id |-> id, geometry |-> g,
                          outcome |-> IF raised THEN "exception" ELSE "ok"]
    /\ UNCHANGED <<historical_site_tbl, siteMarkers>>
    /\ UNCHANGED notSchemaVars

\* UPDATE province | county SET geometry = g WHERE id = id: the BEFORE
\* UPDATE row trigger runs on the new version of the row.
UpdateBoundary(table, id, g) ==
    /\ \E r \in TableRows(table) : r.id = id
    /\ LET new == [id |-> id, geometry |-> g]
           raised == validate_ireland_bounds(new)
       IN  /\ BoundaryWrite(table, {r \in TableRows(table) : r.id # id} \cup {new}, raised)
           /\ lastSql' = [table |-> table, op |-> "UPDATE", id |-> id, geometry |-> g,
                          outcome |-> IF raised THEN "exception" ELSE "ok"]
    /\ UNCHANGED <<historical_site_tbl, siteMarkers>>
    /\ UNCHANGED notSchemaVars

\* DELETE FROM province | county WHERE id = id
DeleteBoundary(table, id) ==
    /\ \E r \in TableRows(table) : r.id = id
    /\ BoundaryWrite(table, {r \in TableRows(table) : r.id # id}, FALSE)
    /\ lastSql' = [table |-> table, op |-> "DELETE", id |-> id, outcome |-> "ok"]
    /\ UNCHANGED <<historical_site_tbl, siteMarkers>>
    /\ UNCHANGED notSchemaVars

\* database_schema.sql:148, CHECK (approval_status IN ('pending',
\* 'approved', 'rejected')): a check constraint is violated only when its
\* expression is false, and for NULL it is unknown.
site_approval_status_valid(status) == status = SqlNull \/ status \in ApprovalStatuses

\* database_schema.sql:137, approval_status VARCHAR(20) DEFAULT 'pending':
\* the value stored for what the statement gives.
StoredStatus(given) == IF given = SqlDefault THEN "pending" ELSE given

\* INSERT INTO historical_site (location, approval_status, ...). No
\* trigger or constraint of the table reads the location.
InsertSiteRow(id, loc, given) ==
    /\ \A r \in historical_site_tbl : r.id # id
    /\ LET new == [id |-> id, location |-> loc, approval_status |-> StoredStatus(given)]
           valid == site_approval_status_valid(new.approval_status)
       IN  /\ historical_site_tbl' = IF valid THEN historical_site_tbl \cup {new}
                                     ELSE historical_site_tbl
           /\ lastSql' = [table |-> "historical_site", op |-> "INSERT", id |-> id,
                          location |-> loc, given |-> given,
                          outcome |-> IF valid THEN "ok" ELSE "check_violation"]
    /\ UNCHANGED <<province, county, siteMarkers>>
    /\ UNCHANGED notSchemaVars

\* UPDATE historical_site SET approval_status = given WHERE id = id
UpdateSiteStatus(id, given) ==
    /\ \E r \in historical_site_tbl : r.id = id
    /\ LET old == CHOOSE r \in historical_site_tbl : r.id = id
           new == [old EXCEPT !.approval_status = StoredStatus(given)]
           valid == site_approval_status_valid(new.approval_status)
       IN  /\ historical_site_tbl' = IF valid THEN (historical_site_tbl \ {old}) \cup {new}
                                     ELSE historical_site_tbl
           /\ lastSql' = [table |-> "historical_site", op |-> "UPDATE", id |-> id,
                          location |-> old.location, given |-> given,
                          outcome |-> IF valid THEN "ok" ELSE "check_violation"]
    /\ UNCHANGED <<province, county, siteMarkers>>
    /\ UNCHANGED notSchemaVars

\* UPDATE historical_site SET location = loc WHERE id = id
UpdateSiteLocation(id, loc) ==
    /\ \E r \in historical_site_tbl : r.id = id /\ r.location # loc
    /\ LET old == CHOOSE r \in historical_site_tbl : r.id = id
       IN  historical_site_tbl' = (historical_site_tbl \ {old})
                                     \cup {[old EXCEPT !.location = loc]}
    /\ lastSql' = [table |-> "historical_site", op |-> "UPDATE", id |-> id,
                   location |-> loc, given |-> "none", outcome |-> "ok"]
    /\ UNCHANGED <<province, county, siteMarkers>>
    /\ UNCHANGED notSchemaVars

\* map.js:507-534, createSiteMarker for a feature with numeric coordinates:
\* outside the client's bounds it warns on the console, and it returns the
\* marker either way.
createSiteMarker(feature) ==
    [id |-> feature.id, lat |-> feature.location.lat, lng |-> feature.location.lon,
     warned |-> (\/ feature.location.lat < 510 \/ feature.location.lat > 560
                 \/ feature.location.lon < -115 \/ feature.location.lon > -45)]

\* map.js:429-466, displaySites with the approved sites the API lists: the
\* markers are cleared and one is made for every feature.
DisplaySiteRows ==
    /\ siteMarkers' = {createSiteMarker(r) :
                          r \in {x \in historical_site_tbl : x.approval_status = "approved"}}
    /\ siteMarkers' # siteMarkers
    /\ lastSql' = NoSql
    /\ UNCHANGED <<province, county, historical_site_tbl>>
    /\ UNCHANGED notSchemaVars

InitSchema ==
    /\ province = {}
    /\ county = {}
    /\ historical_site_tbl = {}
    /\ siteMarkers = {}
    /\ lastSql = NoSql

NextBounds ==
    \/ \E table \in BoundaryTables, id \in GeoIds, g \in Geometries : InsertBoundary(table, id, g)
    \/ \E table \in BoundaryTables, id \in GeoIds, g \in Geometries : UpdateBoundary(table, id, g)
    \/ \E table \in BoundaryTables, id \in GeoIds : DeleteBoundary(table, id)

NextSiteRows ==
    \/ \E id \in GeoIds, loc \in SiteLocations, given \in StatusValues \cup {SqlDefault} :
          InsertSiteRow(id, loc, given)
    \/ \E id \in GeoIds, given \in StatusValues \cup {SqlDefault} : UpdateSiteStatus(id, given)
    \/ \E id \in GeoIds, loc \in SiteLocations : UpdateSiteLocation(id, loc)
    \/ DisplaySiteRows

(***************************************************************************)
(* JOURNEY LOOKUP: checkJourneyStatus and removeFromJourney against a      *)
(* bucket list of any size.  The list endpoint answers in pages            *)
(* (src/Dockerfile:279, CRITICAL_MEMORY_FIXES.md); an entry is known by    *)
(* its position in the order the endpoint lists the entries in.            *)
(***************************************************************************)
NoEntry == 0
JourneySizes == {0, 1, 5, DefaultPageSize, DefaultPageSize + 1, MaxRows}

NoLookup == [called |-> "none", item |-> NoEntry, deleteSent |-> FALSE, toast |-> "none"]

\* The positions in data.results of GET /api/v1/bucket-list/ (no page_size,
\* no page parameter): the first page of the list.
BucketListResults(size) == 1..PageItems(size, PageSizeFor(NoParam), 1)

\* map.js:1688-1702 checkJourneyStatus(siteId) with the request answered:
\* items = data.results || data || [], items.find(i => i.site.id == siteId)
\* || null.  pos is the position of the site's entry in the list, NoEntry
\* when the list has none.
checkJourneyStatus(size, pos) ==
    IF pos \in BucketListResults(size) THEN pos ELSE NoEntry

\* The viewer's list comes to hold `size` entries, the entry of the site in
\* question at position pos (NoEntry: the site is not in the journey).
JourneyGrows(size, pos) ==
    /\ pos \in 0..size
    /\ [size |-> size, pos |-> pos] # [size |-> bucketList.size, pos |-> bucketList.pos]
    /\ bucketList' = [size |-> size, pos |-> pos, last |-> NoLookup]
    /\ UNCHANGED notLookupVars

\* checkJourneyStatus(siteId), network available.
CallCheckJourneyStatus ==
    /\ bucketList' = [bucketList EXCEPT
                        !.last = [NoLookup EXCEPT
                                    !.called = "checkJourneyStatus",
                                    !.item = checkJourneyStatus(bucketList.size, bucketList.pos)]]
    /\ UNCHANGED notLookupVars

\* map.js:1801-1850 removeFromJourney(siteId), network available: 'not
\* found' when the lookup resolved nothing, else DELETE of the resolved entry.
CallRemoveFromJourney ==
    /\ LET item == checkJourneyStatus(bucketList.size, bucketList.pos)
       IN  IF item = NoEntry
           THEN bucketList' = [bucketList EXCEPT
                                 !.last = [called |-> "removeFromJourney", item |-> NoEntry,
                                           deleteSent |-> FALSE,
                                           toast |-> "error:not found in journey"]]
           ELSE bucketList' = [size |-> bucketList.size - 1, pos |-> NoEntry,
                               last |-> [called |-> "removeFromJourney", item |-> item,
                                         deleteSent |-> TRUE, toast |-> "success:removed"]]
    /\ UNCHANGED notLookupVars

InitLookup ==
    bucketList = [size |-> 0, pos |-> NoEntry, last |-> NoLookup]

NextLookup ==
    \/ \E n \in JourneySizes, k \in 0..MaxRows : JourneyGrows(n, k)
    \/ CallCheckJourneyStatus
    \/ CallRemoveFromJourney

InitTools ==
    /\ coordsDisplayEnabled = FALSE
    /\ measurementActive = FALSE
    /\ elevationActive = FALSE
    /\ addPointActive = FALSE
    /\ nearbySearchActive = FALSE
    /\ drawControl = FALSE
    /\ clickListeners = {}
    /\ dblclickListeners = {}
    /\ elevationPoints = 0
    /\ userMarkers = 0
    /\ sidebarOpen = FALSE
    /\ elevInFlight = 0
    /\ nearbyInFlight = 0
    /\ lastEvent = [name |-> "init", active |-> {}, performed |-> {}]

vars == <<toolVars, journeyVars, pageVars, imgVars, nearVars, loadVars, swVars, schemaVars, lookupVars>>

Init == InitTools /\ InitJourney /\ InitPage /\ InitImg /\ InitNear /\ InitLoad /\ InitSw /\ InitSchema /\ InitLookup

NextTools ==
    \/ toggleCoordinatesDisplay
    \/ toggleFilterPanel
    \/ toggleMeasurementTool
    \/ toggleAddPointMode
    \/ toggleElevationTool
    \/ handleNearbySearch
    \/ clearAllDrawings
    \/ EscapeKeydown
    \/ MapClick
    \/ removeMarker
    \/ MapDblClick
    \/ ElevationComplete
    \/ NearbyComplete

SpecTools == Init /\ [][NextTools]_vars

SpecJourney == Init /\ [][NextJourney]_vars
SpecPopup == Init /\ [][NextPopup]_vars

SpecPage == Init /\ [][NextPage]_vars

SpecImg == Init /\ [][NextImg]_vars

SpecImgConc == Init /\ [][NextImgConc]_vars

SpecNear == Init /\ [][NextNear]_vars

NextBbox ==
    \/ \E loc \in GridPlaces, st \in ApprovalStatuses : InsertSite(loc, st)
    \/ \E b \in Boxes : CallFindSitesInBbox(b)

SpecBbox == Init /\ [][NextBbox]_vars

\* The values approval_status can hold in a stored row: the column is
\* nullable (database_schema.sql:137) and its CHECK passes on NULL.
StoredStatuses == ApprovalStatuses \cup {SqlNull}
VisibilityPlaces == {Origin, East}
VisibilityBoxes == {b \in Boxes : b.min_lng < b.max_lng /\ b.min_lat < b.max_lat}

\* Moderation and soft deletion of sites between calls of the two spatial
\* query functions.
NextVisibility ==
    \/ \E loc \in VisibilityPlaces, st \in StoredStatuses : InsertSite(loc, st)
    \/ \E i \in DOMAIN historical_site, st \in StoredStatuses : SetApprovalStatus(i, st)
    \/ \E i \in DOMAIN historical_site, flag \in BOOLEAN : SetDeleted(i, flag)
    \/ \E p \in VisibilityPlaces, r \in RadiiKm : CallFindSitesNearPoint(p, r)
    \/ \E b \in VisibilityBoxes : CallFindSitesInBbox(b)

SpecVisibility == Init /\ [][NextVisibility]_vars

SpecFilter == Init /\ [][NextFilter]_vars

NextLoad ==
    \/ CanLoad(MaxLoads) /\ clearFilters
    \/ CanLoad(MaxLoads) /\ \E v \in FilterValues.siteType : setFilter("siteType", v)
    \/ CanLoad(MaxLoads) /\ LanguageChanged
    \/ \E i \in 1..MaxLoads, kind \in ResponseKinds : SitesResponse(i, kind)
    \/ performNearbySearchStart
    \/ \E kind \in ResponseKinds, fs \in NearbyFeatureSets : NearbyResponse(kind, fs)
    \/ \E layer \in BoundaryLayers : loadBoundaryStart(layer)
    \/ \E layer \in BoundaryLayers, kind \in ResponseKinds : BoundaryResponse(layer, kind)

SpecLoad == Init /\ [][NextLoad]_vars

\* Overlapping loadSites requests, every one of them answered successfully.
NextOverlap ==
    \/ CanLoad(MaxOverlap) /\ clearFilters
    \/ CanLoad(MaxOverlap) /\ \E n \in {"siteType", "era"} : \E v \in FilterValues[n] :
                                 setFilter(n, v)
    \/ CanLoad(MaxOverlap) /\ LanguageChanged
    \/ \E i \in 1..MaxOverlap, kind \in {"paginated", "direct"} : SitesResponse(i, kind)

SpecOverlap == Init /\ [][NextOverlap]_vars

SpecSwApi == Init /\ [][NextSwApi]_vars

SpecSwPages == Init /\ [][NextSwPages]_vars

SpecSwLifecycle == Init /\ [][NextSwLifecycle]_vars

SpecSwStrategies == Init /\ [][NextSwStrategies]_vars

SpecBounds == Init /\ [][NextBounds]_vars

SpecSiteRows == Init /\ [][NextSiteRows]_vars

SpecLookup == Init /\ [][NextLookup]_vars

(***************************************************************************)
(* C1: in every reachable state of the map client at most one of the four  *)
(* tool flags measurementActive, elevationActive, addPointActive and       *)
(* nearbySearchActive is true.                                             *)
(***************************************************************************)
C1_AtMostOneToolActive == Cardinality(ActiveTools(ToolState)) <= 1

\* A tool was switched on while another tool was active.
C1_Witness ==
    /\ lastEvent.name = "toggleAddPointMode"
    /\ "nearby" \in lastEvent.active
    /\ addPointActive

(***************************************************************************)
(* C2: a deactivated tool no longer acts on map clicks: a map click        *)
(* performs only the action of a tool that was active when the click       *)
(* happened, hence of at most one tool.                                    *)
(***************************************************************************)
C2_ClickActsOnlyForActiveTool ==
    lastEvent.name = "MapClick" =>
        /\ lastEvent.performed \subseteq lastEvent.active
        /\ Cardinality(lastEvent.performed) <= 1

(***************************************************************************)
(* C3: immediately after an Escape keydown all four tool flags and         *)
(* coordsDisplayEnabled are false, the measurement draw control is off the *)
(* map and the filter sidebar is closed.                                   *)
(***************************************************************************)
C3_EscapeCancelsAll ==
    lastEvent.name = "Escape" =>
        /\ ~measurementActive
        /\ ~elevationActive
        /\ ~addPointActive
        /\ ~nearbySearchActive
        /\ ~coordsDisplayEnabled
        /\ ~drawControl
        /\ ~sidebarOpen

\* Escape was pressed with the coordinate finder, the measurement tool and
\* the filter sidebar all on.
C3_Witness ==
    /\ lastEvent.name = "Escape"
    /\ {"coords", "measure", "filter"} \subseteq lastEvent.active

DuplicateReported(r) ==
    (r.op = "add" /\ r.postResp = "duplicate") =>
        (r.toast = "info:already in your journey" /\ r.events = 0)

C5_DuplicateAdd ==
    /\ [](/\ DuplicateReported(lastDone)
          /\ \A c \in CallIds : DuplicateReported(calls[c]))
    /\ [][\A c \in CallIds :
            (/\ calls[c].pc = "post_req"
             /\ EntriesOf(calls[c].site) # {}
             /\ calls'[c].pc = "post_resp"
             /\ calls'[c].resp # "failed")
            => (calls'[c].resp = "duplicate" /\ journey' = journey)]_vars

\* An add that was answered 'duplicate' has completed.
C5_Witness ==
    /\ lastDone.op = "add"
    /\ lastDone.postResp = "duplicate"
    /\ journey # {}

(***************************************************************************)
(* C6: removeFromJourney sends the DELETE only after its lookup resolved   *)
(* an entry of the site; when the lookup resolves none it reports 'not     *)
(* found', sends no DELETE, emits no journeyUpdated notification and       *)
(* leaves the journey list unchanged.                                      *)
(***************************************************************************)
C6_RemoveNeedsLookup ==
    /\ [](/\ \A c \in CallIds :
                calls[c].deleteSent =>
                    (calls[c].item \in {[id |-> i, site |-> calls[c].site, status |-> st] :
                                            i \in 1..(MaxEntryId + 1), st \in Statuses})
          /\ (lastDone.op = "remove" /\ ~lastDone.found) =>
                (/\ lastDone.toast = "error:not found in journey"
                 /\ ~lastDone.deleteSent
                 /\ lastDone.events = 0))
    /\ [][\A c \in CallIds :
            (/\ calls[c].op = "remove"
             /\ calls[c].pc = "list_resp"
             /\ calls[c].item = NoItem
             /\ calls'[c].pc # "list_resp")
            => (journey' = journey /\ calls'[c] = NoCall)]_vars

\* A remove whose lookup resolved no entry has completed.
C6_Witness ==
    /\ lastDone.op = "remove"
    /\ ~lastDone.found
    /\ lastDone.toast = "error:not found in journey"

(***************************************************************************)
(* C7: for every paginated endpoint and every requested page_size, the     *)
(* client's page_size=2000 included, a response holds at most the          *)
(* configured maximum page size (200) of items.                            *)
(***************************************************************************)
C7_PageWithinMax == pageResp.count <= MaxPageSize

\* loadSites asked for 2000 items of more than 200 matching rows and got 200.
C7_Witness ==
    /\ pageResp.endpoint = "sites"
    /\ pageResp.requested = ClientPageSize
    /\ rows > MaxPageSize
    /\ pageResp.count = MaxPageSize

(***************************************************************************)
(* C8: after any sequence of single INSERT and UPDATE statements on        *)
(* site_image, one after the other, every site has at most one image row   *)
(* with is_primary = TRUE.                                                 *)
(***************************************************************************)
C8_OnePrimaryPerSite ==
    \A s \in ImgSites : Cardinality(PrimaryOf(site_image, s)) <= 1

\* A statement made an image primary for a site that had a primary image,
\* and the site now has several images of which one is primary.
C8_Witness ==
    /\ lastStmt.ok
    /\ lastStmt.demoted
    /\ \E s \in ImgSites :
          /\ Cardinality({r \in site_image : r.site_id = s}) >= 2
          /\ Cardinality(PrimaryOf(site_image, s)) = 1

(***************************************************************************)
(* C9: when two transactions concurrently insert or update images of the   *)
(* same site with is_primary = TRUE, after both have committed at most one *)
(* of the site's images is flagged primary.                                *)
(***************************************************************************)
C9_OnePrimaryAfterCommits ==
    (\A t \in Txns : ~txn[t].active) =>
        \A s \in ImgSites : Cardinality({r \in site_image : r.site_id = s /\ r.is_primary}) <= 1

(***************************************************************************)
(* C10 as stated: every site a radius query with centre P and radius R     *)
(* returns lies within R of P, and every approved, non-deleted site within *)
(* R of P is returned, by find_sites_near_point and by the nearby endpoint.*)
(***************************************************************************)
WithinRadius(a, p, km) == GeoDistSq(a, p) <= (km * 1000) * (km * 1000)

SitesWithin(p, km) ==
    {i \in DOMAIN historical_site :
        /\ historical_site[i].approval_status = "approved"
        /\ ~historical_site[i].is_deleted
        /\ WithinRadius(historical_site[i].location, p, km)}

SeededWithin(p, km) == IF WithinRadius(Origin, p, km) THEN seeded ELSE 0

ResultSound(res) ==
    /\ \A i \in res.ids : WithinRadius(historical_site[i].location, res.p, res.radius_km)
    /\ res.seeded > 0 => WithinRadius(Origin, res.p, res.radius_km)

ResultComplete(res) ==
    /\ SitesWithin(res.p, res.radius_km) \subseteq res.ids
    /\ res.seeded = SeededWithin(res.p, res.radius_km)

C11_InsideBoxAsGiven ==
    \A r \in bboxResult.rows :
        /\ bboxResult.box.min_lng <= r.longitude /\ r.longitude <= bboxResult.box.max_lng
        /\ bboxResult.box.min_lat <= r.latitude /\ r.latitude <= bboxResult.box.max_lat

(***************************************************************************)
(* C11, amended: every site a bounding-box query returns has its point in  *)
(* the rectangle the two supplied corners span, edge included: its         *)
(* longitude lies between the smaller and the larger of min_lng and        *)
(* max_lng and its latitude between the smaller and the larger of min_lat  *)
(* and max_lat; for min_lng <= max_lng and min_lat <= max_lat that is      *)
(* min_lng <= longitude <= max_lng and min_lat <= latitude <= max_lat.     *)
(***************************************************************************)
C11_InsideBox ==
    \A r \in bboxResult.rows :
        LET b == bboxResult.box
        IN  /\ Min(b.min_lng, b.max_lng) <= r.longitude
            /\ r.longitude <= Max(b.min_lng, b.max_lng)
            /\ Min(b.min_lat, b.max_lat) <= r.latitude
            /\ r.latitude <= Max(b.min_lat, b.max_lat)

\* A query with min below max returned a site on the edge of the box while
\* an approved, not deleted site outside the box was left out.
C11_Witness ==
    /\ bboxResult.called
    /\ bboxResult.box.min_lng < bboxResult.box.max_lng
    /\ bboxResult.box.min_lat < bboxResult.box.max_lat
    /\ \E r \in bboxResult.rows : r.longitude = bboxResult.box.max_lng
    /\ \E i \in DOMAIN historical_site :
          /\ historical_site[i].approval_status = "approved"
          /\ ~historical_site[i].is_deleted
          /\ i \notin {r.site_id : r \in bboxResult.rows}

(***************************************************************************)
(* C12: attribute filters are conjunctive and optional. Every request      *)
(* loadSites builds carries a parameter for exactly the filters set when   *)
(* it was built (era, county, site type, national monument), the sites     *)
(* displayed from its response are those satisfying all of them, and with  *)
(* no filter set the request carries no constraint and every site is       *)
(* displayed.                                                              *)
(***************************************************************************)
IsSet(v) == v # Null /\ v # "" /\ v # "false"

SiteSatisfies(s, n, v) ==
    IF n = "era" THEN s.era = v
    ELSE IF n = "county" THEN s.county = v
    ELSE IF n = "siteType" THEN s.site_type = v
    ELSE s.national_monument = "true"

RequestMatchesFilters(r) ==
    /\ DOMAIN r.params \ {"page_size"} = {ParamOf[n] : n \in {m \in FilterNames : IsSet(r.filters[m])}}
    /\ \A n \in FilterNames :
          IsSet(r.filters[n]) =>
              r.params[ParamOf[n]] = IF n = "nationalMonument" THEN "true" ELSE r.filters[n]

C12_FiltersConjunctiveOptional ==
    /\ \A i \in DOMAIN sitesInFlight : RequestMatchesFilters(sitesInFlight[i])
    /\ markersFrom.issued =>
          /\ RequestMatchesFilters(markersFrom)
          /\ markers = {s.id : s \in {t \in SampleSites :
                                        \A n \in FilterNames :
                                            IsSet(markersFrom.filters[n]) =>
                                                SiteSatisfies(t, n, markersFrom.filters[n])}}
          /\ (\A n \in FilterNames : ~IsSet(markersFrom.filters[n])) =>
                (DOMAIN markersFrom.params = {"page_size"} /\ markers # {})

\* The sites of a request with two filters set are displayed: some sites,
\* not all, and a site satisfying only one of the two is left out.
C12_Witness ==
    /\ markersFrom.issued
    /\ IsSet(markersFrom.filters.era)
    /\ IsSet(markersFrom.filters.nationalMonument)
    /\ ~IsSet(markersFrom.filters.county)
    /\ markers = {1}
    /\ loadDone.kind = "loadSites"

(***************************************************************************)
(* C13: for every list endpoint the map client calls (sites list, nearby,  *)
(* counties, provinces), a successful response in either envelope, the     *)
(* paginated wrapper with the FeatureCollection in results or the direct   *)
(* FeatureCollection, has its features rendered on the map.                *)
(***************************************************************************)
Rendered(endpoint) ==
    IF endpoint \in BoundaryLayers THEN boundaryLayer[endpoint] ELSE markers

C13_BothEnvelopesRendered ==
    (lastResponse.kind \in {"paginated", "direct"} /\ lastResponse.features # {}) =>
        Rendered(lastResponse.endpoint) = lastResponse.features

(***************************************************************************)
(* C14: when the network fails for a GET request to the API, the worker    *)
(* answers with the cached response of the request if there is one, else   *)
(* with the 503 'offline' JSON, and the requester of the page shows that   *)
(* 503 as an error toast.                                                  *)
(***************************************************************************)
EndpointOf(url) == url.pathname[Len(url.pathname)]

NetworkFailedForApiGet ==
    /\ swServed.source \in {"cache", "offline"}
    /\ swServed.request.method = "GET"
    /\ isApiRequest(swServed.request.url)

C14_OfflineFallbackSurfaced ==
    NetworkFailedForApiGet =>
        IF swServed.cached # NoResp
        THEN swServed.resp = swServed.cached /\ Ok(swServed.resp)
        ELSE /\ swServed.resp = OfflineJson
             /\ ErrorToast(EndpointOf(swServed.request.url)) # "none"

(***************************************************************************)
(* C15: the worker never handles a request whose method is not GET: such a *)
(* request is answered by no strategy, reads and writes no cache and is    *)
(* left to the network, so a journey mutation is never answered from a     *)
(* cache.                                                                  *)
(***************************************************************************)
C15_NonGetNeverHandled ==
    [][swServed'.request.method \notin {"GET", "none"} =>
          /\ swServed'.source = "passthrough"
          /\ ~swServed'.cacheRead
          /\ swCache' = swCache
          /\ swPending' = swPending]_vars

\* A POST to the bucket list is passed through while the API cache holds a
\* response for the same URL.
C15_Witness ==
    /\ swServed.request.method = "POST"
    /\ swServed.source = "passthrough"
    /\ CacheMatch(API_CACHE, swServed.request.url) # NoResp

(***************************************************************************)
(* C20: a GET request to the API is answered network-first: whenever the   *)
(* network fetch completes, with whatever status, the response returned is *)
(* that network response and never a cached one, and the cache entry of    *)
(* the request is overwritten only when the network response is ok, with   *)
(* that response.                                                          *)
(***************************************************************************)
ApiEntries == {e \in swCache : e.cache = API_CACHE}

C20_NetworkFirst ==
    [][/\ (swServed'.net # NoResp /\ isApiRequest(swServed'.request.url)) =>
             /\ swServed'.resp = swServed'.net
             /\ swServed'.source = "network"
             /\ ~swServed'.cacheRead
       /\ ApiEntries' # ApiEntries =>
             /\ Ok(swServed'.net)
             /\ swCache' = CachePut(API_CACHE, swServed'.request.url, swServed'.net)]_vars

\* The network answered 500 while the cache held an ok response of the
\* same request: the 500 was returned and the cache entry kept.
C20_Witness ==
    /\ swServed.request.method = "GET"
    /\ swServed.net.status = 500
    /\ swServed.resp = swServed.net
    /\ Ok(swServed.cached)
    /\ CacheMatch(API_CACHE, swServed.request.url) = swServed.cached

(***************************************************************************)
(* C16: an INSERT or UPDATE of a province or county whose geometry extends *)
(* outside longitude [-11, -5] or latitude [51, 56] is rejected with an    *)
(* exception and leaves the tables unchanged, and every stored province    *)
(* and county geometry lies within that envelope.                          *)
(***************************************************************************)
InEnvelope(g) == g.xmin >= -110 /\ g.xmax <= -50 /\ g.ymin >= 510 /\ g.ymax <= 560

C16_BoundsEnforced ==
    /\ [](\A r \in province \cup county : InEnvelope(r.geometry))
    /\ [][(/\ lastSql'.table \in BoundaryTables
           /\ lastSql'.op \in {"INSERT", "UPDATE"}
           /\ ~InEnvelope(lastSql'.geometry)) =>
             /\ lastSql'.outcome = "exception"
             /\ province' = province
             /\ county' = county]_vars

\* An UPDATE of a stored county to a geometry that leaves the envelope by
\* its northern edge only was rejected.
C16_Witness ==
    /\ lastSql.table = "county"
    /\ lastSql.op = "UPDATE"
    /\ lastSql.outcome = "exception"
    /\ lastSql.geometry.ymax > 560
    /\ lastSql.geometry.xmin >= -110 /\ lastSql.geometry.xmax <= -50
    /\ lastSql.geometry.ymin >= 510
    /\ \E r \in county : r.id = lastSql.id /\ InEnvelope(r.geometry)

(***************************************************************************)
(* C17: in every reachable state every stored historical site's point lies *)
(* within the country's envelope, and every site marker the client has     *)
(* created is for a point inside Ireland's bounds.                         *)
(***************************************************************************)
PointInEnvelope(loc) == loc.lon >= -110 /\ loc.lon <= -50 /\ loc.lat >= 510 /\ loc.lat <= 560

C17_SitesInsideEnvelope ==
    /\ \A r \in historical_site_tbl : PointInEnvelope(r.location)
    /\ \A m \in siteMarkers : PointInEnvelope([lon |-> m.lng, lat |-> m.lat])

(***************************************************************************)
(* C18: every historical_site row has an approval_status of 'pending',     *)
(* 'approved' or 'rejected', and an insert or update giving any other      *)
(* value, a missing value included, is rejected and leaves the rows        *)
(* unchanged.                                                              *)
(***************************************************************************)
C18_ApprovalStatusEnum ==
    /\ [](\A r \in historical_site_tbl : r.approval_status \in ApprovalStatuses)
    /\ [][(/\ lastSql'.table = "historical_site"
           /\ lastSql'.given \notin ApprovalStatuses \cup {"none"}) =>
             /\ lastSql'.outcome = "check_violation"
             /\ historical_site_tbl' = historical_site_tbl]_vars

(***************************************************************************)
(* C19: whenever no request is in flight the site count badge equals the   *)
(* number of site markers displayed, after filter changes, language        *)
(* changes and nearby searches alike.                                      *)
(***************************************************************************)
NoRequestInFlight == sitesInFlight = <<>> /\ nearbyPending = 0 /\ boundaryInFlight = {}

C19_BadgeMatchesMarkers == NoRequestInFlight => siteCount = Cardinality(markers)

(***************************************************************************)
(* C21: stale-while-revalidate for page navigations. When the cache the    *)
(* strategy reads holds a copy of the page, that copy is returned in the   *)
(* step that handles the navigation, before the network answers; when the  *)
(* background fetch resolves with an ok response the cache entry is        *)
(* replaced by it; and a navigation answered from the cache gets the entry *)
(* the cache holds then, so a later navigation gets the newer copy.        *)
(***************************************************************************)
NavigationStarts ==
    /\ Len(swPending') = Len(swPending) + 1
    /\ swPending'[Len(swPending')].strategy = "staleWhileRevalidate"

CurrentCaches == {STATIC_CACHE, DYNAMIC_CACHE, API_CACHE, TILE_CACHE}
VersionOf(cacheName) == SubSeq(cacheName, 3, Len(cacheName))

C22_ActivateCleansOldCaches ==
    [][swServed'.source = "activate" =>
          /\ \A n \in cacheNames' : n[1] = "irish-gis-" => VersionOf(n) = <<CACHE_VERSION>>
          /\ (CurrentCaches \cap cacheNames) \subseteq cacheNames'
          /\ \A n \in cacheNames : n[1] # "irish-gis-" => n \in cacheNames']_vars

(***************************************************************************)
(* C23: every URL that install precached is answered with its precached    *)
(* response when it is requested by GET while the network is unavailable,  *)
(* also when it was never fetched through the worker before: such a        *)
(* request is never answered with the offline response.                    *)
(***************************************************************************)
Precached(url) ==
    \E e \in swCache :
        /\ e.url = url
        /\ \/ e.cache = STATIC_CACHE /\ url \in STATIC_ASSETS
           \/ e.cache = DYNAMIC_CACHE /\ url \in CDN_ASSETS

C23_PrecachedServedOffline ==
    (swServed.request.method = "GET" /\ Precached(swServed.request.url)) =>
        swServed.source # "offlineResponse"

(***************************************************************************)
(* C24: in every reachable state every cache entry is a response whose ok  *)
(* flag was true, and whatever a fetch strategy (cache-first,              *)
(* network-first, stale-while-revalidate, the background tile refresh)     *)
(* writes to a cache is the ok response the network gave it: an error      *)
(* response or a 503 the worker made up is never stored.                   *)
(***************************************************************************)
C24_OnlyOkResponsesCached ==
    /\ [](\A e \in swCache : Ok(e.resp))
    /\ [][(swCache' # swCache /\ swServed'.source \notin {"install", "activate"}) =>
             \A e \in swCache' \ swCache :
                /\ Ok(e.resp)
                /\ e.resp = swServed'.net
                /\ e.resp \notin {OfflineJson, OfflineHtml, Empty503}]_vars

\* The background refresh of a cached tile was answered 404 and the cache
\* kept the ok response it held.
C24_Witness ==
    /\ swServed.source = "background"
    /\ swServed.request = Get(TileUrl)
    /\ swServed.net.status = 404
    /\ Ok(swServed.cached)
    /\ CacheMatch(TILE_CACHE, TileUrl) = swServed.cached

(***************************************************************************)
(* C25: when several loadSites requests overlap, then once all of them     *)
(* have completed the markers displayed are those of the response to the   *)
(* most recently issued request, that is, they match the current filters,  *)
(* whatever order the responses arrive in.                                 *)
(***************************************************************************)
C25_LatestRequestWins ==
    sitesInFlight = <<>> =>
        /\ markersFrom.filters = currentFilters
        /\ markers = SitesList(BuildParams(currentFilters))

(***************************************************************************)
(* C26: the loading overlay is shown exactly while a load is in flight:    *)
(* visible whenever loadSites or performNearbySearch has an outstanding    *)
(* request, hidden once none has, also when such requests overlap.         *)
(***************************************************************************)
C26_OverlayWhileLoading == loadingShown <=> (sitesInFlight # <<>> \/ nearbyPending > 0)

(***************************************************************************)
(* C27: once every journey request for the site of the open popup has      *)
(* completed (the status lookup started by popupopen, adds, removes and    *)
(* their follow-up lookups), the popup shows the remove button if and only *)
(* if the site is in the viewer's journey, and the add buttons otherwise,  *)
(* whatever order the responses arrive in.                                 *)
(***************************************************************************)
OutstandingFor(site) == {c \in CallSlots : calls[c].op # "none" /\ calls[c].site = site}

C27_PopupMatchesJourney ==
    (popupSite # NoSite /\ OutstandingFor(popupSite) = {}) =>
        /\ btn.remove <=> EntriesOf(popupSite) # {}
        /\ btn.add <=> EntriesOf(popupSite) = {}

(***************************************************************************)
(* C28: with the network available, if the journey has an entry for the    *)
(* site, checkJourneyStatus(siteId) returns that entry and                 *)
(* removeFromJourney(siteId) deletes it, for a journey of any size, also   *)
(* when the entry is not on the first page of the bucket-list response;    *)
(* checkJourneyStatus returns null only when the journey has no entry for  *)
(* the site.                                                               *)
(***************************************************************************)
C28_LookupFindsEntry ==
    /\ bucketList.last.called = "checkJourneyStatus" =>
          bucketList.last.item = bucketList.pos
    /\ (bucketList.last.called = "removeFromJourney" /\ bucketList.pos # NoEntry) =>
          bucketList.last.item # NoEntry

(***************************************************************************)
(* C29: a journeyUpdated notification (the window event together with the  *)
(* localStorage write read by other tabs) is emitted exactly once for      *)
(* every add or remove whose request the server accepted, and never for a  *)
(* request that failed, was a duplicate, or found no entry.                *)
(***************************************************************************)
Notified(accepted) == IF accepted THEN 1 ELSE 0

LoadFailures == {"network_error", "http_error", "other"}

C30_FailedLoadChangesNothing ==
    [][(/\ Len(sitesInFlight') < Len(sitesInFlight)
        /\ lastResponse'.endpoint = "sites"
        /\ lastResponse'.kind \in LoadFailures)
       => /\ markers' = markers
          /\ siteCount' = siteCount
          /\ currentFilters' = currentFilters
          /\ loadDone'.kind = "loadSites"
          /\ loadDone'.toast = "error:Failed to load historical sites"
          /\ ~loadingShown']_vars

\* A load failed while markers of an earlier load were displayed.
C30_Witness ==
    /\ loadDone.kind = "loadSites"
    /\ loadDone.outcome \in LoadFailures
    /\ markers # {}
    /\ siteCount > 0
    /\ ~loadingShown

(***************************************************************************)
(* C31: find_sites_near_point and find_sites_in_bbox never return a site   *)
(* that is soft-deleted (is_deleted = TRUE) or whose approval_status is    *)
(* not 'approved', in any database state; soft-deleting or un-approving a  *)
(* site removes it from the results of both and leaves the row in place.   *)
(***************************************************************************)
Visible(i) ==
    /\ ~historical_site[i].is_deleted
    /\ historical_site[i].approval_status = "approved"

C31_OnlyVisibleSitesReturned ==
    /\ [](/\ \A i \in nearResult.ids : Visible(i)
          /\ \A r \in bboxResult.rows : Visible(r.site_id)
          /\ \A p \in VisibilityPlaces, km \in RadiiKm :
                \A i \in find_sites_near_point(p, km).ids : Visible(i)
          /\ \A b \in VisibilityBoxes :
                \A r \in find_sites_in_bbox(b.min_lng, b.min_lat, b.max_lng, b.max_lat).rows :
                    Visible(r.site_id))
    /\ [][/\ Len(historical_site') >= Len(historical_site)
          /\ \A i \in DOMAIN historical_site :
                historical_site'[i].location = historical_site[i].location]_vars

\* A radius query around a place with a visible site and a soft-deleted,
\* approved site within the radius returned the visible one and left the
\* soft-deleted one, whose row is still stored, out.
C31_Witness ==
    /\ nearResult.via = "function"
    /\ nearResult.ids # {}
    /\ \E i \in DOMAIN historical_site :
          /\ historical_site[i].is_deleted
          /\ historical_site[i].approval_status = "approved"
          /\ WithinRadius(historical_site[i].location, nearResult.p, nearResult.radius_km)
          /\ i \notin nearResult.ids

====
